---------------------------- MODULE Spec2Model ----------------------------
(***************************************************************************)
(* Smart Router of ableton-mcp-extended: the UDP listener, the router      *)
(* engine (_main_loop / _apply_mapping), the ConfigManager (config load,   *)
(* stream registry, discovery cache) and the two mapping CRUD surfaces     *)
(* (the router's HTTP API and the file based web UI API).                  *)
(*                                                                         *)
(* Numbers.  Python floats are modelled as exact fixed point numbers: the  *)
(* integer v stands for v / Scale.  Scale is chosen so that every blend    *)
(* the model can reach divides exactly.  Time is counted in ticks of half  *)
(* a second (the default streams_cache_interval).                          *)
(***************************************************************************)
EXTENDS Integers, Sequences, FiniteSets, TLC

VARIABLES
    now,                    \* time.time(), in ticks
    running,                \* SmartRouter._running
    file,                   \* the persisted mappings.json
    fs_event,               \* a watchdog event for the config file is pending
    config,                 \* ConfigManager._config
    default_config,         \* the module level dict DEFAULT_CONFIG
    aliased,                \* ConfigManager._config is the dict DEFAULT_CONFIG itself
    stream_last_seen,       \* ConfigManager._stream_last_seen (insertion ordered)
    last_streams_write,     \* ConfigManager._last_streams_write
    streams_cache,          \* content of streams.json
    cache_tick,             \* flips on every successful write of streams.json
    recent,                 \* last result of get_recent_streams
    queue,                  \* SmartRouter.queue
    rx,                     \* state of the UDPReceiver thread
    rx_seen_bad,            \* a malformed datagram has been handled
    engine,                 \* position of _main_loop
    cur,                    \* entries of the batch in progress still to route
    received,               \* number of well-formed datagrams that arrived so far
    popped,                 \* number of payloads the main loop took from the queue
    last_values,            \* SmartRouter._last_values
    current_stream_values,  \* SmartRouter._current_stream_values
    stream_values_file,     \* content of stream_values.json
    last_stream_values_write, \* SmartRouter._last_stream_values_write
    last_entry,             \* what the last routed entry did
    web,                    \* the request each web UI worker thread is handling
    rtr,                    \* the PUT request the router API is handling
    resp,                   \* the last response of either API
    requests,               \* number of API requests taken so far
    lock,                   \* AbletonTCPClient._lock: the thread that holds it, or 0
    sock,                   \* AbletonTCPClient._sock: a connection, or 0 for None
    open_conns,             \* the connections to the application that are open
    opened,                 \* number of connections opened so far
    caller,                 \* where each API worker stands in send_command
    calls,                  \* number of command requests taken so far
    last_call,              \* how the last command request ended
    late,                   \* connections on which the peer still owes a response
    cm_lock,                \* ConfigManager._lock: the thread that holds it, or ""
    values_lock,            \* SmartRouter._values_lock: the thread that holds it, or ""
    access,                 \* the last access to a shared structure, and under which lock
    wire,                   \* the response bytes on their way and those read so far
    snapshot,               \* the last answer of GET /api/stream-values
    udp,                    \* the UDPReceiver: its flag, its socket, its thread and stop()
    late_batch              \* the batch in hand left the queue after stop() cleared the flag

cfgVars == <<file, fs_event, config, default_config, aliased>>
discVars == <<stream_last_seen, last_streams_write, streams_cache, cache_tick>>
rxVars == <<rx, rx_seen_bad, received>>
engVars == <<engine, cur, popped, last_values, current_stream_values,
             stream_values_file, last_stream_values_write, last_entry>>

apiVars == <<web, rtr, resp, requests>>

tcpVars == <<lock, sock, open_conns, opened, caller, calls, last_call, late>>

lockVars == <<cm_lock, values_lock, access>>

syncVars == <<lockVars, wire, snapshot, udp, late_batch>>

vars == <<now, running, cfgVars, discVars, recent, queue, rxVars, engVars, apiVars,
          tcpVars,
          syncVars>>

---------------------------------------------------------------------------
(* Bounds of the model *)

\* batches the listener accepts in one run
MaxBatches == 2
\* ticks the clock advances in one run
MaxTime == 2
\* API requests taken in one run
MaxRequests == 3
\* command requests taken in one run
MaxCalls == 3

\* the most mappings of one file that share a smoothing key
MaxSameKey == 2

\* one unit (1.0) in fixed point; every reachable blend divides exactly
Scale == 10 * (2 ^ ((MaxBatches + 1) * MaxSameKey))

\* time.time() at construction: far above 0.0, the initial "last write" stamps
StartTime == 20

---------------------------------------------------------------------------
(* JSON values as the code sees them *)

JNum(v) == [type |-> "number", value |-> v]
JNull == [type |-> "null", value |-> 0]
JStr == [type |-> "string", value |-> 0]
JBig == [type |-> "bigint", value |-> 0]

Streams == {"a", "b"}

Range(s) == {s[i] : i \in DOMAIN s}


Min(x, y) == IF y < x THEN y ELSE x
Max(x, y) == IF y > x THEN y ELSE x

---------------------------------------------------------------------------
(* config_manager.py: the configuration and its load *)

\* a settings map is a function from the keys it holds
EmptySettings == [k \in {} |-> 0]

DefaultInterval == 1
DefaultTtl == 10

DefaultSettings ==
    [auto_discover_streams |-> TRUE,
     streams_cache_interval |-> DefaultInterval,
     streams_ttl_seconds |-> DefaultTtl]

DEFAULT_CONFIG == [settings |-> DefaultSettings, mappings |-> <<>>]

\* dict.get(key, default)
Get(map, key, default) == IF key \in DOMAIN map THEN map[key] ELSE default

\* a mapping object of the "mappings" list; target indices and smoothing are
\* JSON values (an index of JNull stands for an absent or null index)
Target(t, d, p) ==
    [isdict |-> TRUE, track_index |-> t, device_index |-> d, parameter_index |-> p]

Mapping(stream, target, lo, hi, smoothing, enabled) ==
    [isobj |-> TRUE, motion_stream |-> stream, target |-> target,
     range |-> [ok |-> TRUE, lo |-> lo, hi |-> hi],
     smoothing |-> smoothing, enabled |-> enabled]

\* a file on disk: a JSON document, an unparsable one, or no file
Doc(settings, mappings) ==
    [kind |-> "json", has_settings |-> TRUE, settings |-> settings,
     has_mappings |-> TRUE, mappings |-> mappings]

AbsentFile == [Doc(EmptySettings, <<>>) EXCEPT !.kind = "absent"]
CorruptFile == [Doc(EmptySettings, <<>>) EXCEPT !.kind = "corrupt"]

\* ConfigManager._ensure_config_file: an absent file is written from DEFAULT_CONFIG
ensure_config_file(f, dflt) ==
    IF f.kind = "absent" THEN Doc(dflt.settings, dflt.mappings) ELSE f

\* a load that synthesizes a missing "settings" key as an empty map
load_config_empty_settings(f, dflt) ==
    LET g == ensure_config_file(f, dflt)
    IN IF g.kind = "json"
       THEN [settings |-> IF g.has_settings THEN g.settings ELSE EmptySettings,
             mappings |-> IF g.has_mappings THEN g.mappings ELSE <<>>]
       ELSE [settings |-> dflt.settings, mappings |-> dflt.mappings]

\* ConfigManager.load_config: the in-memory config read from file f, where dflt is
\* what the dict DEFAULT_CONFIG holds at that time
load_config(f, dflt) ==
    LET g == ensure_config_file(f, dflt)
        data == IF g.kind = "json"
                THEN [settings |-> g.settings, mappings |-> g.mappings,
                      has_settings |-> g.has_settings, has_mappings |-> g.has_mappings]
                ELSE [settings |-> dflt.settings, mappings |-> dflt.mappings,
                      has_settings |-> TRUE, has_mappings |-> TRUE]
    IN [settings |-> IF data.has_settings THEN data.settings ELSE dflt.settings,
        mappings |-> IF data.has_mappings THEN data.mappings ELSE <<>>]

\* load_config, line 93: after a failed read data is DEFAULT_CONFIG, not a copy
load_config_aliases(f) == f.kind = "corrupt"

\* ConfigManager.get_settings
get_settings(cfg) == cfg.settings

\* ConfigManager.get_mappings_for_stream: m.get on an element that is not an
\* object raises, whatever the stream asked for
get_mappings_for_stream(cfg, stream_name) ==
    IF \E i \in DOMAIN cfg.mappings : ~cfg.mappings[i].isobj
    THEN [raised |-> TRUE, mappings |-> <<>>]
    ELSE [raised |-> FALSE,
          mappings |-> SelectSeq(cfg.mappings,
                          LAMBDA m : m.motion_stream = stream_name /\ m.enabled)]

---------------------------------------------------------------------------
(* config_manager.py: the stream registry and the discovery cache *)

\* the dict _stream_last_seen, as the sequence of its items in insertion order
SeenNames(seen) == {seen[i].name : i \in DOMAIN seen}

\* the loop of register_streams: self._stream_last_seen[name] = now
RECURSIVE set_last_seen(_, _, _)
set_last_seen(seen, names, t) ==
    IF names = <<>> THEN seen
    ELSE LET n == Head(names)
             upd == IF n \in SeenNames(seen)
                    THEN [i \in DOMAIN seen |->
                            IF seen[i].name = n THEN [name |-> n, last_seen |-> t]
                            ELSE seen[i]]
                    ELSE Append(seen, [name |-> n, last_seen |-> t])
         IN set_last_seen(upd, Tail(names), t)

\* list.sort(key=last_seen, reverse=True): stable, most recent first
RECURSIVE insert_sorted(_, _)
insert_sorted(sorted, x) ==
    IF sorted = <<>> THEN <<x>>
    ELSE IF Head(sorted).last_seen < x.last_seen THEN <<x>> \o sorted
    ELSE <<Head(sorted)>> \o insert_sorted(Tail(sorted), x)

RECURSIVE sort_streams(_)
sort_streams(items) ==
    IF items = <<>> THEN <<>>
    ELSE insert_sorted(sort_streams(SubSeq(items, 1, Len(items) - 1)), items[Len(items)])

\* the filter with the window's edge left out
recent_items_strict(seen, t, ttl) == SelectSeq(seen, LAMBDA e : t - e.last_seen < ttl)

\* the list comprehension of _maybe_write_streams_cache and get_recent_streams
recent_items(seen, t, ttl) == SelectSeq(seen, LAMBDA e : t - e.last_seen <= ttl)

\* a persist that does not look at the time of the previous one
maybe_write_streams_cache_always(cfg, seen, last_write, cache, t) ==
    [last_write |-> t,
     cache |-> sort_streams(recent_items(seen, t,
                  Get(get_settings(cfg), "streams_ttl_seconds", DefaultTtl))),
     event |-> "written"]

\* ConfigManager._maybe_write_streams_cache (the write succeeds)
maybe_write_streams_cache(cfg, seen, last_write, cache, t) ==
    LET interval == Get(get_settings(cfg), "streams_cache_interval", DefaultInterval)
        ttl == Get(get_settings(cfg), "streams_ttl_seconds", DefaultTtl)
    IN IF t - last_write < interval
       THEN [last_write |-> last_write, cache |-> cache, event |-> "skipped"]
       ELSE [last_write |-> t, cache |-> sort_streams(recent_items(seen, t, ttl)),
             event |-> "written"]

\* ConfigManager.register_streams
register_streams(cfg, seen, last_write, cache, names, t) ==
    LET seen2 == set_last_seen(seen, names, t)
        w == IF Get(get_settings(cfg), "auto_discover_streams", TRUE)
             THEN maybe_write_streams_cache(cfg, seen2, last_write, cache, t)
             ELSE [last_write |-> last_write, cache |-> cache, event |-> "off"]
    IN [seen |-> seen2, last_write |-> w.last_write, cache |-> w.cache, event |-> w.event]

\* ConfigManager.get_recent_streams
get_recent_streams(seen, t, within_seconds) ==
    LET items == recent_items(seen, t, within_seconds)
    IN [i \in DOMAIN items |-> items[i].name]

---------------------------------------------------------------------------
(* router.py: the transform *)

\* clamp that forgets the upper bound
clamp_lower_only(value, min_value, max_value) == Max(min_value, value)

\* clamp that forgets the lower bound
clamp_upper_only(value, min_value, max_value) == Min(max_value, value)

\* clamp: max(min_value, min(max_value, value))
clamp(value, min_value, max_value) == Max(min_value, Min(max_value, value))

\* the f-string key of _apply_mapping
smoothing_key(stream_name, target) ==
    <<stream_name, target.track_index, target.device_index, target.parameter_index>>

\* float(output_range[0]), float(output_range[1]) with the [0, 1] fallback, in units
output_range(m) == IF m.range.ok THEN <<m.range.lo, m.range.hi>> ELSE <<0, 1>>

\* the blend with the weights of previous and current sample exchanged
smooth_swapped(smoothing, previous, normalized) ==
    IF smoothing > 0
    THEN (((Scale - smoothing) * previous) + (smoothing * normalized)) \div Scale
    ELSE normalized

\* the blend of _apply_mapping, lines 153-155
smooth(smoothing, previous, normalized) ==
    IF smoothing > 0
    THEN ((smoothing * previous) + ((Scale - smoothing) * normalized)) \div Scale
    ELSE normalized

\* the scaling that multiplies by out_max instead of the width of the range
scale_value_by_max(normalized, out_min, out_max) ==
    (out_min * Scale) + (normalized * out_max)

\* the scaling without the final clamp
scale_value_unclamped(normalized, out_min, out_max) ==
    (out_min * Scale) + (normalized * (out_max - out_min))

\* the scaling of _apply_mapping, lines 165-166
scale_value(normalized, out_min, out_max) ==
    clamp((out_min * Scale) + (normalized * (out_max - out_min)),
          out_min * Scale, out_max * Scale)

NoApp ==
    [key |-> <<"", JNull, JNull, JNull>>, raw |-> 0, cur |-> 0, had_prev |-> FALSE,
     stored_before |-> 0, s |-> 0, n |-> 0, stored_after |-> 0,
     range_ok |-> FALSE, lo |-> 0, hi |-> 0, value |-> 0]

NoMsg == [track_index |-> 0, device_index |-> 0, parameter_index |-> 0, value |-> 0]

\* an application that stores the smoothing state before it looks at the target
apply_mapping_skip_stores(stream_name, raw_value, m, lv) ==
    LET target == m.target
        idx == <<target.track_index, target.device_index, target.parameter_index>>
        normalized == clamp(raw_value, 0, Scale)
        smoothing == clamp(m.smoothing.value, 0, Scale)
        key == smoothing_key(stream_name, target)
        had_prev == key \in DOMAIN lv
        previous == IF had_prev THEN lv[key] ELSE normalized
        n == smooth(smoothing, previous, normalized)
        lv2 == [k \in (DOMAIN lv) \cup {key} |-> IF k = key THEN n ELSE lv[k]]
        rng == output_range(m)
        value == scale_value(n, rng[1], rng[2])
        app == [key |-> key, raw |-> raw_value, cur |-> normalized,
                had_prev |-> had_prev, stored_before |-> IF had_prev THEN lv[key] ELSE 0,
                s |-> smoothing, n |-> n, stored_after |-> lv2[key],
                range_ok |-> m.range.ok, lo |-> rng[1], hi |-> rng[2], value |-> value]
    IN  IF ~target.isdict
        THEN [outcome |-> "raised", lv |-> lv, msg |-> NoMsg, app |-> NoApp]
        ELSE IF \E i \in 1..3 : idx[i].type = "null"
        THEN [outcome |-> "skip", lv |-> lv2, msg |-> NoMsg, app |-> NoApp]
        ELSE IF m.smoothing.type # "number"
        THEN [outcome |-> "raised", lv |-> lv, msg |-> NoMsg, app |-> NoApp]
        ELSE IF \E i \in 1..3 : idx[i].type # "number"
        THEN [outcome |-> "raised", lv |-> lv2, msg |-> NoMsg, app |-> app]
        ELSE [outcome |-> "sent", lv |-> lv2,
              msg |-> [track_index |-> idx[1].value, device_index |-> idx[2].value,
                       parameter_index |-> idx[3].value, value |-> value],
              app |-> app]

\* SmartRouter._apply_mapping on one mapping: what happened ("skip", "sent" or
\* "raised"), the smoothing state after it, the datagram handed to the sender and a
\* record of the values the application went through
apply_mapping(stream_name, raw_value, m, lv) ==
    LET target == m.target
        idx == <<target.track_index, target.device_index, target.parameter_index>>
        normalized == clamp(raw_value, 0, Scale)
        smoothing == clamp(m.smoothing.value, 0, Scale)
        key == smoothing_key(stream_name, target)
        had_prev == key \in DOMAIN lv
        previous == IF had_prev THEN lv[key] ELSE normalized
        n == smooth(smoothing, previous, normalized)
        lv2 == [k \in (DOMAIN lv) \cup {key} |-> IF k = key THEN n ELSE lv[k]]
        rng == output_range(m)
        value == scale_value(n, rng[1], rng[2])
        app == [key |-> key, raw |-> raw_value, cur |-> normalized,
                had_prev |-> had_prev, stored_before |-> IF had_prev THEN lv[key] ELSE 0,
                s |-> smoothing, n |-> n, stored_after |-> lv2[key],
                range_ok |-> m.range.ok, lo |-> rng[1], hi |-> rng[2], value |-> value]
    IN  IF ~target.isdict
        THEN [outcome |-> "raised", lv |-> lv, msg |-> NoMsg, app |-> NoApp]
        ELSE IF \E i \in 1..3 : idx[i].type = "null"
        THEN [outcome |-> "skip", lv |-> lv, msg |-> NoMsg, app |-> NoApp]
        ELSE IF m.smoothing.type # "number"
        THEN [outcome |-> "raised", lv |-> lv, msg |-> NoMsg, app |-> NoApp]
        ELSE IF \E i \in 1..3 : idx[i].type # "number"
        THEN [outcome |-> "raised", lv |-> lv2, msg |-> NoMsg, app |-> app]
        ELSE [outcome |-> "sent", lv |-> lv2,
              msg |-> [track_index |-> idx[1].value, device_index |-> idx[2].value,
                       parameter_index |-> idx[3].value, value |-> value],
              app |-> app]

\* the loop "for mapping in mappings: self._apply_mapping(...)" of _main_loop
RECURSIVE apply_all(_, _, _, _)
apply_all(stream_name, raw_value, mappings, lv) ==
    IF mappings = <<>>
    THEN [raised |-> FALSE, lv |-> lv, sent |-> <<>>, apps |-> <<>>]
    ELSE LET r == apply_mapping(stream_name, raw_value, Head(mappings), lv)
         IN IF r.outcome = "raised"
            THEN [raised |-> TRUE, lv |-> r.lv, sent |-> <<>>,
                  apps |-> IF r.app = NoApp THEN <<>> ELSE <<r.app>>]
            ELSE LET rest == apply_all(stream_name, raw_value, Tail(mappings), r.lv)
                 IN [raised |-> rest.raised, lv |-> rest.lv,
                     sent |-> (IF r.outcome = "sent" THEN <<r.msg>> ELSE <<>>) \o rest.sent,
                     apps |-> (IF r.outcome = "sent" THEN <<r.app>> ELSE <<>>) \o rest.apps]

---------------------------------------------------------------------------
(* Inputs *)

\* k tenths in fixed point
Tenths(k) == (k * Scale) \div 10

Entry(stream, value) == [stream |-> stream, value |-> value]

DictDatagram(entries) == [kind |-> "dict", batch |-> entries]
BadUtf8 == [kind |-> "bad_utf8", batch |-> <<>>]
BadJson == [kind |-> "bad_json", batch |-> <<>>]
NotADict == [kind |-> "not_dict", batch |-> <<>>]

\* datagrams the mocap source (or anyone) may send
Datagrams ==
    {DictDatagram(<<Entry("a", JNum(Tenths(7)))>>),
     DictDatagram(<<Entry("a", JNum(Tenths(2)))>>),
     DictDatagram(<<Entry("a", JNum(Tenths(10)))>>),
     DictDatagram(<<Entry("a", JNum(Tenths(-50)))>>),
     DictDatagram(<<Entry("a", JStr), Entry("b", JNum(Tenths(20)))>>),
     DictDatagram(<<Entry("b", JBig)>>),
     BadUtf8, BadJson, NotADict}

T012 == Target(JNum(0), JNum(1), JNum(2))
T001 == Target(JNum(0), JNum(0), JNum(1))

\* mapping lists a mappings.json may hold
GoodMappingLists ==
    {<<Mapping("a", T012, 20, 80, JNum(0), TRUE)>>,
     <<Mapping("a", T012, 0, 1, JNum(Tenths(5)), TRUE),
       Mapping("a", T001, 20, 80, JNum(Tenths(20)), TRUE)>>,
     <<Mapping("a", T001, 0, 1, JNum(0), FALSE),
       Mapping("b", T001, 80, 20, JNum(Tenths(-10)), TRUE),
       Mapping("a", T012, 80, 20, JNum(Tenths(5)), TRUE)>>,
     <<Mapping("a", Target(JNum(0), JNum(1), JNull), 0, 1, JNum(0), TRUE),
       Mapping("a", T012, 0, 1, JNum(Tenths(5)), TRUE),
       [Mapping("a", T012, 0, 1, JNum(Tenths(5)), TRUE) EXCEPT !.range.ok = FALSE]>>}

\* mapping lists with content of the wrong type
BadMappingLists ==
    {<<Mapping("a", T012, 0, 1, JNum(0), TRUE),
       Mapping("a", T001, 0, 1, JStr, TRUE),
       [Mapping("b", T012, 0, 1, JNum(0), TRUE) EXCEPT !.target.isdict = FALSE]>>,
     <<[Mapping("b", T012, 0, 1, JNum(0), TRUE) EXCEPT !.isobj = FALSE]>>,
     <<Mapping("a", Target(JNum(0), JStr, JNum(2)), 0, 1, JNum(0), TRUE)>>}

ShortTtlSettings ==
    [auto_discover_streams |-> TRUE, streams_cache_interval |-> 2, streams_ttl_seconds |-> 1]
NoDiscoverySettings == [auto_discover_streams |-> FALSE]

\* contents mappings.json may have, by hand edit or by a writer of the file
FileDocs ==
    {Doc(DefaultSettings, ml) : ml \in GoodMappingLists \cup BadMappingLists}
    \cup {CorruptFile}

---------------------------------------------------------------------------
(* State after SmartRouter.__init__ / ConfigManager.__init__ *)

NoEntry ==
    [valid |-> FALSE, stream |-> "", raw |-> 0, mappings |-> <<>>,
     before |-> [k \in {} |-> 0], sent |-> <<>>, apps |-> <<>>, raised |-> FALSE]

NoRecent == [at |-> 0, within |-> 0, names |-> <<>>]

EmptyMap == [k \in {} |-> 0]

\* worker threads of the web UI server
WebThreads == {1, 2}

EmptyPayload == [k \in {} |-> 0]

IdleRequest ==
    [pc |-> "idle", op |-> "", stream |-> "", payload |-> EmptyPayload,
     read |-> Doc(EmptySettings, <<>>), doc |-> Doc(EmptySettings, <<>>)]

\* the API workers that run ableton_command
Callers == {1, 2}

NoReply == [kind |-> "none", status |-> "", has_result |-> FALSE, result |-> "",
            has_message |-> FALSE, message |-> ""]

\* stream: the motion stream of a create-from-last request, "" for a plain command
IdleCaller == [pc |-> "idle", entered_with |-> 0, stream |-> ""]

NoCall == [thread |-> 0, http |-> 0, result |-> "", detail |-> "", reply |-> NoReply,
           sent |-> FALSE, entered_with |-> 0, used |-> 0, left |-> 0]

NoResponse ==
    [api |-> "", op |-> "", stream |-> "", status |-> 0, payload |-> EmptyPayload,
     read |-> <<>>, fetched |-> <<>>]

NoAccess == [thread |-> "", structure |-> "", kind |-> "", held |-> TRUE]

NoWire == [doc |-> <<>>, rest |-> <<>>, then |-> "", buf |-> <<>>, reads |-> 0]

NoSnapshot == [taken |-> FALSE, values |-> [k \in {} |-> 0]]

NoReceiver == [running |-> FALSE, sock |-> "none", pc |-> "unstarted", stop |-> "idle"]

InitWith(files) ==
    /\ now = StartTime
    /\ running = FALSE
    /\ \E f \in files :
         /\ file = ensure_config_file(f, DEFAULT_CONFIG)
         /\ config = load_config(f, DEFAULT_CONFIG)
         /\ aliased = load_config_aliases(f)
    /\ default_config = DEFAULT_CONFIG
    /\ fs_event = FALSE
    /\ stream_last_seen = <<>>
    /\ last_streams_write = 0
    /\ streams_cache = <<>>
    /\ cache_tick = 0
    /\ recent = NoRecent
    /\ queue = <<>>
    /\ rx = "created"
    /\ received = 0
    /\ rx_seen_bad = FALSE
    /\ engine = "created"
    /\ cur = <<>>
    /\ popped = 0
    /\ last_values = EmptyMap
    /\ current_stream_values = EmptyMap
    /\ stream_values_file = EmptyMap
    /\ last_stream_values_write = 0
    /\ last_entry = NoEntry
    /\ web = [t \in WebThreads |-> IdleRequest]
    /\ rtr = IdleRequest
    /\ resp = NoResponse
    /\ requests = 0
    /\ lock = 0
    /\ sock = 0
    /\ open_conns = {}
    /\ opened = 0
    /\ caller = [t \in Callers |-> IdleCaller]
    /\ calls = 0
    /\ last_call = NoCall
    /\ late = {}
    /\ cm_lock = ""
    /\ values_lock = ""
    /\ access = NoAccess
    /\ wire = NoWire
    /\ snapshot = NoSnapshot
    /\ udp = NoReceiver
    /\ late_batch = FALSE

---------------------------------------------------------------------------
(* SmartRouter.start: the receiver thread and the main loop begin *)

Start ==
    /\ ~running
    /\ engine = "created"
    /\ running' = TRUE
    /\ rx' = "running"
    /\ engine' = "idle"
    /\ UNCHANGED <<tcpVars, apiVars, now, cfgVars, discVars, recent, queue, rx_seen_bad,
                   received, cur, popped, last_values, current_stream_values, stream_values_file,
                   last_stream_values_write, last_entry>>
    /\ UNCHANGED syncVars

---------------------------------------------------------------------------
(* udp_receiver.py: one pass of the loop of UDPReceiver._run on datagram d *)

\* a receive loop that a decode error ends
receive_dies(q, d) ==
    IF d.kind = "dict"
    THEN [queue |-> Append(q, d), rx |-> "running"]
    ELSE [queue |-> q, rx |-> "dead"]

\* a listener that puts a new batch in front of the queued ones
receive_in_front(q, d) ==
    IF d.kind = "dict"
    THEN [queue |-> <<d>> \o q, rx |-> "running"]
    ELSE [queue |-> q, rx |-> "running"]

\* what the try block of _run does with datagram d: the queue after it, and the
\* state of the loop (decode errors are caught and the loop continues)
receive(q, d) ==
    IF d.kind = "dict"
    THEN [queue |-> Append(q, d), rx |-> "running"]
    ELSE [queue |-> q, rx |-> "running"]

Receive(d) ==
    /\ rx = "running"
    /\ d.kind = "dict" => received < MaxBatches
    /\ LET r == receive(queue, d)
       IN /\ queue' = r.queue
          /\ rx' = r.rx
    /\ received' = IF d.kind = "dict" THEN received + 1 ELSE received
    /\ rx_seen_bad' = (rx_seen_bad \/ d.kind # "dict")
    /\ UNCHANGED <<tcpVars, apiVars, now, running, cfgVars, discVars, recent, engVars>>
    /\ UNCHANGED syncVars

---------------------------------------------------------------------------
(* router.py: _main_loop *)

FlushInterval == 0

\* lines 121-124: the live value cache takes every numeric entry of the payload;
\* float() of an integer too large for a float raises OverflowError
RECURSIVE update_values(_, _)
update_values(values, entries) ==
    IF entries = <<>> THEN [raised |-> FALSE, values |-> values]
    ELSE LET e == Head(entries)
         IN IF e.value.type = "bigint" THEN [raised |-> TRUE, values |-> values]
            ELSE IF e.value.type = "number"
            THEN update_values(
                   [k \in (DOMAIN values) \cup {e.stream} |->
                      IF k = e.stream THEN e.value.value ELSE values[k]],
                   Tail(entries))
            ELSE update_values(values, Tail(entries))

\* SmartRouter._write_stream_values: the snapshot written (the write succeeds)
write_stream_values(values) == values

stream_names(entries) == [i \in DOMAIN entries |-> entries[i].stream]

\* lines 100-128: take a payload; a payload that is no dict is skipped; else
\* register its streams and update the live values
Dequeue ==
    /\ queue' = Tail(queue)
    /\ popped' = popped + 1
    /\ last_entry' = NoEntry
    /\ LET payload == Head(queue).batch
           reg == register_streams(config, stream_last_seen, last_streams_write,
                                   streams_cache, stream_names(payload), now)
           upd == update_values(current_stream_values, payload)
           flush == now - last_stream_values_write > FlushInterval
       IN IF Head(queue).kind # "dict"
          THEN /\ engine' = "idle"
               /\ UNCHANGED <<discVars, cur, current_stream_values,
                              stream_values_file, last_stream_values_write>>
          ELSE
          /\ stream_last_seen' = reg.seen
          /\ last_streams_write' = reg.last_write
          /\ streams_cache' = reg.cache
          /\ cache_tick' = IF reg.event = "written" THEN 1 - cache_tick ELSE cache_tick
          /\ current_stream_values' = upd.values
          /\ IF upd.raised
             THEN /\ engine' = "crashed"
                  /\ cur' = <<>>
                  /\ UNCHANGED <<stream_values_file, last_stream_values_write>>
             ELSE /\ engine' = IF payload = <<>> THEN "idle" ELSE "batch"
                  /\ cur' = payload
                  /\ last_stream_values_write' =
                        IF flush THEN now ELSE last_stream_values_write
                  /\ stream_values_file' =
                        IF flush THEN write_stream_values(upd.values)
                        ELSE stream_values_file
    /\ UNCHANGED <<tcpVars, apiVars, now, running, cfgVars, recent, rxVars, last_values>>

\* one pass of the loop that finds a payload: the test of the flag, queue.get
\* and the work on the payload up to the first entry
EnginePop ==
    /\ running
    /\ engine = "idle"
    /\ queue # <<>>
    /\ Dequeue
    /\ UNCHANGED syncVars

\* lines 130-137: route the next entry of the batch in progress
EngineEntry ==
    /\ engine = "batch"
    /\ cur # <<>>
    /\ LET e == Head(cur)
           got == get_mappings_for_stream(config, e.stream)
           res == apply_all(e.stream, e.value.value, got.mappings, last_values)
           next_pc == IF Tail(cur) = <<>> THEN "idle" ELSE "batch"
       IN IF e.value.type # "number"
          THEN /\ engine' = next_pc
               /\ UNCHANGED <<last_values, last_entry>>
          ELSE IF got.raised
          THEN /\ engine' = "crashed"
               /\ last_entry' = [valid |-> TRUE, stream |-> e.stream, raw |-> e.value.value,
                                 mappings |-> config.mappings, before |-> last_values,
                                 sent |-> <<>>, apps |-> <<>>, raised |-> TRUE]
               /\ UNCHANGED last_values
          ELSE /\ engine' = IF res.raised THEN "crashed" ELSE next_pc
               /\ last_values' = res.lv
               /\ last_entry' = [valid |-> TRUE, stream |-> e.stream, raw |-> e.value.value,
                                 mappings |-> config.mappings, before |-> last_values,
                                 sent |-> res.sent, apps |-> res.apps, raised |-> res.raised]
    /\ cur' = Tail(cur)
    /\ UNCHANGED <<tcpVars, apiVars, now, running, cfgVars, discVars, recent, queue, rxVars,
                   popped,
                   current_stream_values, stream_values_file, last_stream_values_write>>
    /\ UNCHANGED syncVars

\* lines 101-106: the queue stayed empty for the timeout; housekeeping only
EngineTimeout ==
    /\ running
    /\ engine = "idle"
    /\ queue = <<>>
    /\ now - last_stream_values_write > FlushInterval
    /\ last_stream_values_write' = now
    /\ stream_values_file' = write_stream_values(current_stream_values)
    /\ UNCHANGED <<tcpVars, apiVars, now, running, cfgVars, discVars, recent, queue, rxVars,
                   engine, cur, popped, last_values, current_stream_values, last_entry>>
    /\ UNCHANGED syncVars

---------------------------------------------------------------------------
(* The config file changes on disk and the watcher reloads it *)

\* somebody edits mappings.json
ExternalEdit(doc) ==
    /\ doc # file
    /\ file' = doc
    /\ fs_event' = TRUE
    /\ UNCHANGED <<tcpVars, apiVars, now, running, config, default_config, aliased, discVars, recent, queue, rxVars, engVars>>
    /\ UNCHANGED syncVars

\* _ConfigFileHandler.on_modified / on_created -> ConfigManager.load_config
WatcherReload ==
    /\ running
    /\ fs_event
    /\ fs_event' = FALSE
    /\ file' = ensure_config_file(file, default_config)
    /\ config' = load_config(file, default_config)
    /\ aliased' = load_config_aliases(file)
    /\ default_config' = default_config
    /\ UNCHANGED <<tcpVars, apiVars, now, running, discVars, recent, queue, rxVars, engVars>>
    /\ UNCHANGED syncVars

\* an edit of mappings.json while the router runs, and the reload it triggers
HotReload(doc) ==
    /\ running
    /\ ~fs_event
    /\ doc # file
    /\ file' = ensure_config_file(doc, default_config)
    /\ config' = load_config(doc, default_config)
    /\ aliased' = load_config_aliases(doc)
    /\ default_config' = default_config
    /\ UNCHANGED <<tcpVars, apiVars, now, running, fs_event, discVars, recent, queue, rxVars, engVars>>
    /\ UNCHANGED syncVars

---------------------------------------------------------------------------
(* Time and discovery listing *)

Tick ==
    /\ now < StartTime + MaxTime
    /\ now' = now + 1
    /\ UNCHANGED <<tcpVars, apiVars, running, cfgVars, discVars, recent, queue, rxVars, engVars>>
    /\ UNCHANGED syncVars

GetRecentStreams(within_seconds) ==
    /\ recent' = [at |-> now, within |-> within_seconds,
                  names |-> get_recent_streams(stream_last_seen, now, within_seconds)]
    /\ recent' # recent
    /\ UNCHANGED <<tcpVars, apiVars, now, running, cfgVars, discVars, queue, rxVars, engVars>>
    /\ UNCHANGED syncVars

---------------------------------------------------------------------------
(* Specification of the routing pipeline *)

Init == InitWith(FileDocs)

Next ==
    \/ Start
    \/ \E d \in Datagrams : Receive(d)
    \/ EnginePop
    \/ EngineEntry
    \/ EngineTimeout
    \/ \E doc \in FileDocs : HotReload(doc)

Spec == Init /\ [][Next]_vars

---------------------------------------------------------------------------
(* Claims about the transform (checked under Spec) *)

\* the mappings of a routed entry that the claim calls for a dispatch: enabled,
\* of the entry's stream, with all three indices present (as numbers)
Complete(target) ==
    /\ target.isdict
    /\ target.track_index.type = "number"
    /\ target.device_index.type = "number"
    /\ target.parameter_index.type = "number"

Eligible(le) ==
    SelectSeq(le.mappings,
        LAMBDA m : m.isobj /\ m.enabled /\ m.motion_stream = le.stream /\ Complete(m.target))

\* raw clamped to [0, 1], written out case by case
Clamp01(raw) == IF raw < 0 THEN 0 ELSE IF raw > Scale THEN Scale ELSE raw

\* C1: in every application of a mapping the value that enters smoothing and
\* scaling is the raw sample clamped to [0, 1]: below 0 it is 0, above 1 it is 1,
\* inside it is the sample; with no smoothing it is also the value stored and scaled
C1_RawClamped ==
    \A i \in DOMAIN last_entry.apps :
        LET a == last_entry.apps[i]
        IN /\ a.raw = last_entry.raw
           /\ a.cur = Clamp01(last_entry.raw)
           /\ a.raw < 0 => a.cur = 0
           /\ a.raw > Scale => a.cur = Scale
           /\ a.s = 0 => a.stored_after = Clamp01(last_entry.raw)

\* raw -5 was applied and 0.0 went into smoothing and scaling
C1_Witness ==
    \E i \in DOMAIN last_entry.sent :
        /\ last_entry.raw = Tenths(-50)
        /\ last_entry.apps[i].cur = 0
        /\ last_entry.apps[i].stored_after = 0

\* value stored for key k after the first i applications of the routed entry
RECURSIVE StoredAfter(_, _, _)
StoredAfter(le, k, i) ==
    IF i = 0
    THEN [has |-> k \in DOMAIN le.before, v |-> IF k \in DOMAIN le.before THEN le.before[k] ELSE 0]
    ELSE IF le.apps[i].key = k THEN [has |-> TRUE, v |-> le.apps[i].n]
    ELSE StoredAfter(le, k, i - 1)

C2_Blend ==
    \A i \in DOMAIN last_entry.apps :
        LET a == last_entry.apps[i]
            was == StoredAfter(last_entry, a.key, i - 1)
            prev == IF was.has THEN was.v ELSE a.cur
        IN /\ 0 <= a.s /\ a.s <= Scale
           /\ a.n * Scale = (a.s * prev) + ((Scale - a.s) * a.cur)
           /\ StoredAfter(last_entry, a.key, Len(last_entry.apps)).v = last_values[a.key]
           /\ a.key \in DOMAIN last_values

\* C2: every application emits s*prev + (1-s)*cur, prev being the value the
\* previous application of the same key stored (cur itself on first use), and
\* stores what it emitted as the new prev, also with s = 0; the smoothing state
\* changes in no other way
C2_SmoothingIsConvexBlend ==
    /\ []C2_Blend
    /\ [][/\ (last_entry' # last_entry /\ last_entry'.valid) => last_entry'.before = last_values
          /\ last_values' # last_values => (last_entry' # last_entry /\ last_entry'.valid)]_vars

\* prior 0.2, smoothing 0.5, raw 1.0: 0.6 is emitted and dispatched with range [0, 1]
C2_Witness ==
    \E i \in DOMAIN last_entry.sent :
        LET a == last_entry.apps[i]
        IN /\ StoredAfter(last_entry, a.key, i - 1) = [has |-> TRUE, v |-> Tenths(2)]
           /\ a.s = Tenths(5)
           /\ last_entry.raw = Tenths(10)
           /\ a.n = Tenths(6)
           /\ last_values[a.key] = Tenths(6)
           /\ last_entry.sent[i].value = Tenths(6)

\* C3: with a range [out_min, out_max], out_min <= out_max, the value dispatched
\* is out_min + n * (out_max - out_min) and lies in the range; smoothing 0,
\* range [20, 80] and raw 0.7 dispatch 62 to target (0, 1, 2)
C3_ScaledIntoRange ==
    \A i \in DOMAIN last_entry.sent :
        LET m == Eligible(last_entry)[i]
            a == last_entry.apps[i]
            msg == last_entry.sent[i]
        IN /\ (m.range.ok /\ m.range.lo <= m.range.hi) =>
                /\ msg.value = (m.range.lo * Scale) + (a.n * (m.range.hi - m.range.lo))
                /\ m.range.lo * Scale <= msg.value
                /\ msg.value <= m.range.hi * Scale
           /\ (/\ m.range.ok /\ m.range.lo = 20 /\ m.range.hi = 80
               /\ m.smoothing = JNum(0) /\ last_entry.raw = Tenths(7)) =>
                msg.value = 62 * Scale

\* the datagram {"a": 0.7} met the mapping with range [20, 80] and smoothing 0
C3_Witness ==
    \E i \in DOMAIN last_entry.sent :
        /\ Eligible(last_entry)[i].range = [ok |-> TRUE, lo |-> 20, hi |-> 80]
        /\ Eligible(last_entry)[i].smoothing = JNum(0)
        /\ last_entry.raw = Tenths(7)
        /\ last_entry.sent[i] = [track_index |-> 0, device_index |-> 1,
                                 parameter_index |-> 2, value |-> 62 * Scale]

TargetOfMsg(msg) == <<msg.track_index, msg.device_index, msg.parameter_index>>
TargetOfMapping(m) ==
    <<m.target.track_index, m.target.device_index, m.target.parameter_index>>

\* C4: a routed numeric entry causes exactly one dispatch for every enabled
\* mapping of its stream with a complete target, in config order, and no other
C4_OneDispatchPerActiveMapping ==
    last_entry.valid =>
        LET el == Eligible(last_entry)
        IN /\ Len(last_entry.sent) = Len(el)
           /\ \A i \in DOMAIN el :
                /\ TargetOfMapping(el[i])[1] = JNum(last_entry.sent[i].track_index)
                /\ TargetOfMapping(el[i])[2] = JNum(last_entry.sent[i].device_index)
                /\ TargetOfMapping(el[i])[3] = JNum(last_entry.sent[i].parameter_index)

\* C9: the main loop never ends with an unhandled error
C9_MainLoopKeepsRunning == engine # "crashed"

\* C10: only decoded JSON objects are on the queue, the receive loop is alive
\* while the listener runs, and every well-formed datagram that arrived was queued
C10_MalformedDroppedLoopContinues ==
    /\ \A i \in DOMAIN queue : queue[i].kind = "dict"
    /\ running => rx = "running"
    /\ received = popped + Len(queue)

\* a well-formed datagram was queued after a malformed one had been handled
C10_Witness ==
    /\ rx_seen_bad
    /\ rx = "running"
    /\ queue # <<>>
    /\ received = popped + Len(queue)

---------------------------------------------------------------------------
(* Specification of stream discovery: the clock advances, batches register
   their streams, the discovery cache is written and listings are taken *)

DiscoveryDatagrams ==
    {DictDatagram(<<Entry("a", JNum(Tenths(7)))>>),
     DictDatagram(<<Entry("b", JStr)>>),
     DictDatagram(<<Entry("b", JNum(Tenths(7))), Entry("a", JNum(Tenths(7)))>>),
     NotADict}

DiscoveryDocs ==
    {Doc(DefaultSettings, <<>>),
     Doc(ShortTtlSettings, <<>>),
     Doc(NoDiscoverySettings, <<>>)}

\* windows a caller of get_recent_streams may ask for (the default is 5 s)
Windows == {1, DefaultTtl}

InitDiscovery == InitWith(DiscoveryDocs)

NextDiscovery ==
    \/ Start
    \/ Tick
    \/ \E d \in DiscoveryDatagrams : Receive(d)
    \/ EnginePop
    \/ EngineEntry
    \/ EngineTimeout
    \/ \E doc \in DiscoveryDocs : HotReload(doc)
    \/ \E w \in Windows : GetRecentStreams(w)

SpecDiscovery == InitDiscovery /\ [][NextDiscovery]_vars

\* the registered streams whose last sighting is within ttl of time t
LastSeenOf(seen, n) == (CHOOSE i \in DOMAIN seen : seen[i].name = n)
FreshNames(seen, t, ttl) ==
    {n \in SeenNames(seen) : t - seen[LastSeenOf(seen, n)].last_seen <= ttl}

\* C5: a discovery listing taken at time now with window ttl, by
\* get_recent_streams or as the list written to streams.json, holds exactly the
\* registered streams with now - last_seen <= ttl
C5_ListingWithinTtl ==
    [][/\ cache_tick' # cache_tick =>
            {streams_cache'[i].name : i \in DOMAIN streams_cache'} =
                FreshNames(stream_last_seen', now',
                           Get(config'.settings, "streams_ttl_seconds", DefaultTtl))
       /\ recent' # recent =>
            /\ recent'.at = now
            /\ Range(recent'.names) = FreshNames(stream_last_seen, now, recent'.within)]_vars

\* the cache was just written and leaves out a registered stream that has expired,
\* and a listing taken now leaves out an expired stream too
C5_Witness ==
    /\ last_streams_write = now
    /\ streams_cache # <<>>
    /\ \E i \in DOMAIN stream_last_seen :
          /\ now - stream_last_seen[i].last_seen >
                Get(config.settings, "streams_ttl_seconds", DefaultTtl)
          /\ \A j \in DOMAIN streams_cache :
                streams_cache[j].name # stream_last_seen[i].name
    /\ recent.at = now
    /\ recent.names # <<>>
    /\ Len(recent.names) < Len(stream_last_seen)

---------------------------------------------------------------------------
(* Mapping payloads and their normalisation *)

\* a payload is a function from the keys it holds
Merge(existing, payload) ==
    [k \in (DOMAIN existing) \cup (DOMAIN payload) |->
        IF k \in DOMAIN payload THEN payload[k] ELSE existing[k]]

WithStream(payload, motion_stream) ==
    Merge(payload, [motion_stream |-> motion_stream])

\* a stored mapping seen as a dict, for {**mapping, **payload}
AsDict(m) ==
    [motion_stream |-> m.motion_stream, target |-> m.target, range |-> m.range,
     smoothing |-> m.smoothing, enabled |-> m.enabled]

\* target = payload.get("target", {}) with the top-level indices written into it
payload_target(payload) ==
    LET base == Get(payload, "target", Target(JNull, JNull, JNull))
    IN [isdict |-> base.isdict,
        track_index |-> Get(payload, "track_index", base.track_index),
        device_index |-> Get(payload, "device_index", base.device_index),
        parameter_index |-> Get(payload, "parameter_index", base.parameter_index)]

NoMapping == Mapping("", Target(JNull, JNull, JNull), 0, 1, JNum(0), TRUE)

\* the checks and conversions both normalisers share; lo and hi are the range read
normalized(payload, lo, hi, range_ok) ==
    LET target == payload_target(payload)
        smoothing == Get(payload, "smoothing", JNum(0))
        idx == <<target.track_index, target.device_index, target.parameter_index>>
    IN IF \/ Get(payload, "motion_stream", "") = ""
          \/ ~target.isdict
          \/ \E i \in 1..3 : idx[i].type # "number"
          \/ ~range_ok
          \/ smoothing.type # "number"
       THEN [ok |-> FALSE, mapping |-> NoMapping]
       ELSE [ok |-> TRUE,
             mapping |-> Mapping(payload.motion_stream,
                                 Target(idx[1], idx[2], idx[3]), lo, hi,
                                 smoothing, Get(payload, "enabled", TRUE))]

\* web_ui/server.py _normalize_mapping: the range comes from range_min / range_max
normalize_mapping(payload) ==
    normalized(payload, Get(payload, "range_min", 0), Get(payload, "range_max", 1), TRUE)

\* a normaliser that writes device and parameter index into each other's place
normalize_mapping_payload_swapped(payload) ==
    LET rng == Get(payload, "range", [ok |-> TRUE, lo |-> 0, hi |-> 1])
        n == normalized(payload, Get(payload, "range_min", rng.lo),
                        Get(payload, "range_max", rng.hi), rng.ok)
    IN [n EXCEPT !.mapping.target.device_index = n.mapping.target.parameter_index,
                 !.mapping.target.parameter_index = n.mapping.target.device_index]

\* router.py SmartRouter._normalize_mapping_payload: range_min / range_max default
\* to the elements of "range"
normalize_mapping_payload(payload) ==
    LET rng == Get(payload, "range", [ok |-> TRUE, lo |-> 0, hi |-> 1])
    IN normalized(payload, Get(payload, "range_min", rng.lo),
                  Get(payload, "range_max", rng.hi), rng.ok)

---------------------------------------------------------------------------
(* web_ui/server.py: the file based mapping API *)

\* what _locked_read_json returns for a file that is absent or does not parse: {}
EmptyObject ==
    [kind |-> "json", has_settings |-> FALSE, settings |-> EmptySettings,
     has_mappings |-> FALSE, mappings |-> <<>>]

\* the file between open(path, "w") and the end of json.dump
TruncatedFile == CorruptFile

\* _ensure_mappings_file
ensure_mappings_file(f) == IF f.kind = "absent" THEN Doc(EmptySettings, <<>>) ELSE f

\* _locked_read_json
locked_read_json(f) == IF f.kind = "json" THEN f ELSE EmptyObject

\* config.get("mappings", [])
mappings_of(cfg) == IF cfg.has_mappings THEN cfg.mappings ELSE <<>>

\* config["mappings"] = mappings
with_mappings(cfg, mappings) ==
    [cfg EXCEPT !.has_mappings = TRUE, !.mappings = mappings]

HasStream(mappings, motion_stream) ==
    \E i \in DOMAIN mappings : mappings[i].motion_stream = motion_stream

\* a create that appends without looking for an existing mapping
web_create_no_check(cfg, mapping) ==
    [status |-> 200, doc |-> with_mappings(cfg, Append(mappings_of(cfg), mapping))]

\* create_mapping after the read: 409 when the stream is mapped, else append
web_create(cfg, mapping) ==
    IF HasStream(mappings_of(cfg), mapping.motion_stream)
    THEN [status |-> 409, doc |-> cfg]
    ELSE [status |-> 200, doc |-> with_mappings(cfg, Append(mappings_of(cfg), mapping))]

\* an update that lets the payload's motion_stream stand
web_update_payload_stream(cfg, motion_stream, payload) ==
    LET mappings == mappings_of(cfg)
    IN IF ~HasStream(mappings, motion_stream)
       THEN [status |-> 404, doc |-> cfg]
       ELSE LET i == CHOOSE j \in DOMAIN mappings :
                        /\ mappings[j].motion_stream = motion_stream
                        /\ \A k \in 1..(j - 1) : mappings[k].motion_stream # motion_stream
                n == normalize_mapping(Merge(AsDict(mappings[i]), payload))
            IN IF ~n.ok THEN [status |-> 500, doc |-> cfg]
               ELSE [status |-> 200,
                     doc |-> with_mappings(cfg, [mappings EXCEPT ![i] = n.mapping])]

\* update_mapping after the read: the first mapping of the stream is replaced by
\* the normalised merge; an error of the normaliser is not caught (500)
web_update(cfg, motion_stream, payload) ==
    LET mappings == mappings_of(cfg)
    IN IF ~HasStream(mappings, motion_stream)
       THEN [status |-> 404, doc |-> cfg]
       ELSE LET i == CHOOSE j \in DOMAIN mappings :
                        /\ mappings[j].motion_stream = motion_stream
                        /\ \A k \in 1..(j - 1) : mappings[k].motion_stream # motion_stream
                n == normalize_mapping(
                        Merge(AsDict(mappings[i]), WithStream(payload, motion_stream)))
            IN IF ~n.ok THEN [status |-> 500, doc |-> cfg]
               ELSE [status |-> 200,
                     doc |-> with_mappings(cfg, [mappings EXCEPT ![i] = n.mapping])]

\* a delete that answers ok whether or not the stream had a mapping
web_delete_always_ok(cfg, motion_stream) ==
    [status |-> 200,
     doc |-> with_mappings(cfg, SelectSeq(mappings_of(cfg),
                                   LAMBDA m : m.motion_stream # motion_stream))]

\* delete_mapping after the read
web_delete(cfg, motion_stream) ==
    LET mappings == mappings_of(cfg)
        new_mappings == SelectSeq(mappings, LAMBDA m : m.motion_stream # motion_stream)
    IN IF Len(new_mappings) = Len(mappings)
       THEN [status |-> 404, doc |-> cfg]
       ELSE [status |-> 200, doc |-> with_mappings(cfg, new_mappings)]

web_decide(r) ==
    IF r.op = "create" THEN web_create(r.read, normalize_mapping(r.payload).mapping)
    ELSE IF r.op = "update" THEN web_update(r.read, r.stream, r.payload)
    ELSE web_delete(r.read, r.stream)

Response(api, op, stream, status, payload, read, fetched) ==
    [api |-> api, op |-> op, stream |-> stream, status |-> status, payload |-> payload,
     read |-> read, fetched |-> fetched]

\* a worker takes a request: the file is ensured, a create payload is normalised
\* (400 on error) and the file is read
WebBegin(t, op, motion_stream, payload) ==
    /\ web[t].pc = "idle"
    /\ requests < MaxRequests
    /\ requests' = requests + 1
    /\ file' = ensure_mappings_file(file)
    /\ LET p == IF op = "create" THEN WithStream(payload, motion_stream) ELSE payload
       IN IF op = "create" /\ ~normalize_mapping(p).ok
          THEN /\ resp' = Response("web", op, motion_stream, 400, p, <<>>, <<>>)
               /\ web' = web
          ELSE /\ web' = [web EXCEPT ![t] =
                            [pc |-> "read", op |-> op, stream |-> motion_stream,
                             payload |-> p, read |-> locked_read_json(file'),
                             doc |-> EmptyObject]]
               /\ resp' = resp
    /\ UNCHANGED <<tcpVars, now, running, fs_event, config, default_config, aliased, discVars, recent, queue, rxVars,
                   engVars, rtr>>
    /\ UNCHANGED syncVars

\* the handler decides on what it read: an error response, or open(path, "w")
WebDecide(t) ==
    /\ web[t].pc = "read"
    /\ LET r == web[t]
           d == web_decide(r)
       IN IF d.status = 200
          THEN /\ file' = TruncatedFile
               /\ fs_event' = TRUE
               /\ web' = [web EXCEPT ![t].pc = "writing", ![t].doc = d.doc]
               /\ resp' = resp
          ELSE /\ web' = [web EXCEPT ![t] = IdleRequest]
               /\ resp' = Response("web", r.op, r.stream, d.status, r.payload,
                                   mappings_of(r.read), <<>>)
               /\ UNCHANGED <<file, fs_event>>
    /\ UNCHANGED <<tcpVars, now, running, config, default_config, aliased, discVars, recent, queue, rxVars, engVars, rtr,
                   requests>>
    /\ UNCHANGED syncVars

\* json.dump, flush and fsync of _locked_write_json, and the ok response.  A
\* writer that opened the file before another writer's dump writes from offset 0
\* over that document: what remains is its own document, or its own document
\* followed by the tail of the longer one, which does not parse
WebDump(t) ==
    /\ web[t].pc \in {"writing", "overwriting"}
    /\ \/ file' = web[t].doc
       \/ /\ web[t].pc = "overwriting"
          /\ file' = CorruptFile
    /\ fs_event' = TRUE
    /\ web' = [u \in WebThreads |->
                 IF u = t THEN IdleRequest
                 ELSE IF web[u].pc = "writing" THEN [web[u] EXCEPT !.pc = "overwriting"]
                 ELSE web[u]]
    /\ resp' = Response("web", web[t].op, web[t].stream, 200, web[t].payload,
                        mappings_of(web[t].read), <<>>)
    /\ UNCHANGED <<tcpVars, now, running, config, default_config, aliased, discVars, recent, queue, rxVars, engVars, rtr,
                   requests>>
    /\ UNCHANGED syncVars

---------------------------------------------------------------------------
(* The mutating operations of ConfigManager the router's API calls; each runs
   under the manager's mutex and persists the new document in one piece *)

\* ConfigManager.list_mappings
list_mappings(cfg) == cfg.mappings

\* the persisted form of the in-memory config
save_config(cfg) == Doc(cfg.settings, cfg.mappings)

IndexOfStream(mappings, motion_stream) ==
    CHOOSE j \in DOMAIN mappings :
        /\ mappings[j].motion_stream = motion_stream
        /\ \A k \in 1..(j - 1) : mappings[k].motion_stream # motion_stream

WithoutStream(mappings, motion_stream) ==
    SelectSeq(mappings, LAMBDA m : m.motion_stream # motion_stream)

\* the list with the stream's mapping replaced where it stood, no second one kept
Replaced(mappings, mapping) ==
    LET i == IndexOfStream(mappings, mapping.motion_stream)
    IN WithoutStream(SubSeq(mappings, 1, i - 1), mapping.motion_stream)
       \o <<mapping>>
       \o WithoutStream(SubSeq(mappings, i + 1, Len(mappings)), mapping.motion_stream)

\* ConfigManager.add_mapping: re-adding a stream replaces its mapping
add_mapping(cfg, mapping) ==
    [ok |-> TRUE,
     cfg |-> [cfg EXCEPT !.mappings =
                 IF HasStream(cfg.mappings, mapping.motion_stream)
                 THEN Replaced(cfg.mappings, mapping)
                 ELSE Append(cfg.mappings, mapping)]]

\* ConfigManager.update_mapping: an error unless the stream has a mapping
update_mapping(cfg, motion_stream, mapping) ==
    IF HasStream(cfg.mappings, motion_stream)
    THEN [ok |-> TRUE,
          cfg |-> [cfg EXCEPT !.mappings =
                      Replaced(cfg.mappings, [mapping EXCEPT !.motion_stream = motion_stream])]]
    ELSE [ok |-> FALSE, cfg |-> cfg]

\* ConfigManager.delete_mapping: deleting a stream that has no mapping is an error
delete_mapping(cfg, motion_stream) ==
    IF HasStream(cfg.mappings, motion_stream)
    THEN [ok |-> TRUE,
          cfg |-> [cfg EXCEPT !.mappings = WithoutStream(cfg.mappings, motion_stream)]]
    ELSE [ok |-> FALSE, cfg |-> cfg]

---------------------------------------------------------------------------
(* router.py: the handlers of SmartRouter._create_api_app *)

\* the manager has changed its config: memory and file move together
Persist(r) ==
    /\ aliased' = aliased
    /\ IF r.ok
       THEN /\ config' = r.cfg
            /\ default_config' = IF aliased THEN r.cfg ELSE default_config
            /\ file' = save_config(r.cfg)
            /\ fs_event' = TRUE
       ELSE UNCHANGED <<file, fs_event, config, default_config>>

\* POST /api/mappings
RouterCreate(motion_stream, payload) ==
    /\ running
    /\ rtr.pc = "idle"
    /\ requests < MaxRequests
    /\ requests' = requests + 1
    /\ LET p == WithStream(payload, motion_stream)
           n == normalize_mapping_payload(p)
           r == IF n.ok THEN add_mapping(config, n.mapping) ELSE [ok |-> FALSE, cfg |-> config]
       IN /\ Persist(r)
          /\ resp' = Response("router", "create", motion_stream,
                              IF r.ok THEN 200 ELSE 400, p, config.mappings,
                              get_mappings_for_stream(r.cfg, motion_stream).mappings)
    /\ UNCHANGED <<tcpVars, now, running, discVars, recent, queue, rxVars, engVars, web, rtr>>
    /\ UNCHANGED syncVars

\* _normalize_mapping_payload, lines 337-343, called on {**existing, **payload}:
\* the merge is shallow, so without a "target" of its own the payload's target is
\* the dict of the mapping that list_mappings handed out, and the top-level
\* indices are written into that dict before anything is checked. The stored
\* mapping is that dict's owner as long as the config still holds the mapping read
target_written_in_place(cfg, read, motion_stream, payload) ==
    IF /\ HasStream(cfg.mappings, motion_stream)
       /\ HasStream(read.mappings, motion_stream)
    THEN LET i == IndexOfStream(cfg.mappings, motion_stream)
             existing == read.mappings[IndexOfStream(read.mappings, motion_stream)]
         IN IF /\ cfg.mappings[i] = existing
               /\ payload.target = existing.target
               /\ existing.target.isdict
            THEN [cfg EXCEPT !.mappings[i].target = payload_target(payload)]
            ELSE cfg
    ELSE cfg

\* PUT /api/mappings/{motion_stream}: the look-up of the existing mapping
RouterUpdateBegin(motion_stream, payload) ==
    /\ running
    /\ rtr.pc = "idle"
    /\ requests < MaxRequests
    /\ requests' = requests + 1
    /\ LET mappings == list_mappings(config)
       IN IF HasStream(mappings, motion_stream)
          THEN /\ rtr' = [pc |-> "listed", op |-> "update", stream |-> motion_stream,
                          payload |-> Merge(AsDict(mappings[IndexOfStream(mappings, motion_stream)]),
                                            WithStream(payload, motion_stream)),
                          read |-> Doc(config.settings, mappings),
                          doc |-> EmptyObject]
               /\ resp' = resp
          ELSE /\ rtr' = rtr
               /\ resp' = Response("router", "update", motion_stream, 404, payload,
                                   mappings, <<>>)
    /\ UNCHANGED <<tcpVars, now, running, cfgVars, discVars, recent, queue, rxVars, engVars, web>>
    /\ UNCHANGED syncVars

\* PUT /api/mappings/{motion_stream}: normalisation of the merge and the update
RouterUpdateEnd ==
    /\ rtr.pc = "listed"
    /\ LET n == normalize_mapping_payload(rtr.payload)
           touched == target_written_in_place(config, rtr.read, rtr.stream, rtr.payload)
           r == IF n.ok THEN update_mapping(touched, rtr.stream, n.mapping)
                ELSE [ok |-> FALSE, cfg |-> touched]
       IN /\ IF r.ok THEN Persist(r)
             ELSE /\ aliased' = aliased
                  /\ config' = r.cfg
                  /\ default_config' = IF aliased /\ r.cfg # config THEN r.cfg
                                        ELSE default_config
                  /\ UNCHANGED <<file, fs_event>>
          /\ resp' = Response("router", "update", rtr.stream, IF r.ok THEN 200 ELSE 400,
                              rtr.payload, config.mappings,
                              get_mappings_for_stream(r.cfg, rtr.stream).mappings)
    /\ rtr' = IdleRequest
    /\ UNCHANGED <<tcpVars, now, running, discVars, recent, queue, rxVars, engVars, web, requests>>
    /\ UNCHANGED syncVars

\* DELETE /api/mappings/{motion_stream}
RouterDelete(motion_stream) ==
    /\ running
    /\ rtr.pc = "idle"
    /\ requests < MaxRequests
    /\ requests' = requests + 1
    /\ LET r == delete_mapping(config, motion_stream)
       IN /\ Persist(r)
          /\ resp' = Response("router", "delete", motion_stream,
                              IF r.ok THEN 200 ELSE 404, EmptyPayload, config.mappings,
                              get_mappings_for_stream(r.cfg, motion_stream).mappings)
    /\ UNCHANGED <<tcpVars, now, running, discVars, recent, queue, rxVars, engVars, web, rtr>>
    /\ UNCHANGED syncVars

---------------------------------------------------------------------------
(* The two mapping APIs and the watcher, on a file whose streams are distinct *)

MappingA == Mapping("a", T012, 20, 80, JNum(0), TRUE)

ApiDocs == {Doc(DefaultSettings, <<>>), Doc(DefaultSettings, <<MappingA>>)}

\* an override of the nested target by top-level indices, and no target at all
CreatePayloads ==
    {[target |-> T012],
     [target |-> T012, device_index |-> JNum(0), parameter_index |-> JNum(1)],
     [enabled |-> TRUE]}

\* an update that names another stream than the path does
UpdatePayloads == {[motion_stream |-> "b", enabled |-> FALSE]}

InitApi == InitWith(ApiDocs)

NextApi ==
    \/ Start
    \/ WatcherReload
    \/ \E t \in WebThreads, op \in {"update", "delete"}, s \in Streams, p \in UpdatePayloads :
         WebBegin(t, op, s, p)
    \/ \E t \in WebThreads, s \in Streams : WebBegin(t, "create", s, [target |-> T012])
    \/ \E t \in WebThreads : WebDecide(t)
    \/ \E t \in WebThreads : WebDump(t)
    \/ \E s \in Streams, p \in CreatePayloads : RouterCreate(s, p)
    \/ \E s \in Streams, p \in UpdatePayloads : RouterUpdateBegin(s, p)
    \/ RouterUpdateEnd
    \/ \E s \in Streams : RouterDelete(s)

SpecApi == InitApi /\ [][NextApi]_vars

---------------------------------------------------------------------------
(* Create, delete and uniqueness of mappings *)

\* the target a payload submits: a top-level index stands before the nested one
SubmittedTarget(payload) ==
    <<IF "track_index" \in DOMAIN payload THEN payload.track_index.value
      ELSE payload.target.track_index.value,
      IF "device_index" \in DOMAIN payload THEN payload.device_index.value
      ELSE payload.target.device_index.value,
      IF "parameter_index" \in DOMAIN payload THEN payload.parameter_index.value
      ELSE payload.target.parameter_index.value>>

StoredTarget(m) ==
    <<m.target.track_index.value, m.target.device_index.value,
      m.target.parameter_index.value>>

RouterCreated ==
    /\ resp.api = "router"
    /\ resp.op = "create"
    /\ resp.status = 200
    /\ Get(resp.payload, "enabled", TRUE)

\* C6: after a successful create of an enabled mapping for stream S through the
\* router's API, get_mappings_for_stream(S) on the resulting config returns exactly
\* one mapping, and its target is the submitted one, whether or not S was mapped
C6_CreateThenFetchOne ==
    RouterCreated =>
        /\ Len(resp.fetched) = 1
        /\ resp.fetched[1].motion_stream = resp.stream
        /\ StoredTarget(resp.fetched[1]) = SubmittedTarget(resp.payload)

\* a create that replaced an existing mapping, with top-level indices that differ
\* from the nested target
C6_Witness ==
    /\ RouterCreated
    /\ HasStream(resp.read, resp.stream)
    /\ "device_index" \in DOMAIN resp.payload
    /\ Len(resp.fetched) = 1

\* the step in which web worker t answers a delete request
WebDeleteAnswers(t) ==
    /\ web[t].op = "delete"
    /\ web[t].pc \in {"read", "writing"}
    /\ web'[t].pc = "idle"

\* the step that serves a delete request of the router's API
RouterDeleteAnswers ==
    /\ requests' = requests + 1
    /\ web' = web
    /\ rtr' = rtr
    /\ resp'.api = "router"
    /\ resp'.op = "delete"

C7_WebDelete(t) ==
    LET r == web[t]
    IN IF HasStream(mappings_of(r.read), r.stream)
       THEN /\ resp'.status = 200
            /\ file' = [r.read EXCEPT !.has_mappings = TRUE,
                                     !.mappings = WithoutStream(r.read.mappings, r.stream)]
       ELSE /\ resp'.status = 404
            /\ UNCHANGED <<file, config>>

C7_RouterDelete ==
    IF HasStream(config.mappings, resp'.stream)
    THEN /\ resp'.status = 200
         /\ config' = [config EXCEPT !.mappings = WithoutStream(config.mappings, resp'.stream)]
         /\ file' = Doc(config.settings, WithoutStream(config.mappings, resp'.stream))
    ELSE /\ resp'.status = 404
         /\ UNCHANGED <<file, config>>

\* C7: a delete for a stream that has no mapping answers 404 and leaves the mapping
\* list, the settings and the file as they were; a delete for a mapped stream
\* removes the mappings of that stream and nothing else
C7_DeleteMissIs404 ==
    [][/\ \A t \in WebThreads : WebDeleteAnswers(t) => C7_WebDelete(t)
       /\ RouterDeleteAnswers => C7_RouterDelete]_vars

\* a 404 from the web API for a delete on a list that holds another stream
C7_Witness ==
    /\ resp.api = "web"
    /\ resp.op = "delete"
    /\ resp.status = 404
    /\ Len(resp.read) > 0

Distinct(mappings) ==
    \A i, j \in DOMAIN mappings :
        mappings[i].motion_stream = mappings[j].motion_stream => i = j

\* C8: from a list with pairwise distinct streams, whatever the interleaving of
\* create, update and delete requests, the mapping list (in memory and in the
\* file) holds at most one mapping per stream
C8_OneMappingPerStream ==
    /\ Distinct(config.mappings)
    /\ file.kind = "json" => Distinct(mappings_of(file))

\* two creates for the same stream that both passed the existence check, one of
\* them written
C8_Witness ==
    \E t \in WebThreads :
        /\ web[t].op = "create"
        /\ web[t].pc = "overwriting"
        /\ resp.api = "web"
        /\ resp.op = "create"
        /\ resp.status = 200
        /\ resp.stream = web[t].stream
        /\ file.kind = "json"
        /\ HasStream(mappings_of(file), resp.stream)

---------------------------------------------------------------------------
(* The ingestion channel under overload *)

\* a capacity below the number of batches that arrive while the engine is slow;
\* Queue() at router.py:31 is built without a maxsize
Capacity == MaxBatches - 1

\* C11: the number of queued batches never exceeds a fixed capacity, however many
\* batches arrive and however slowly the engine consumes
C11_QueueBounded == Len(queue) <= Capacity

\* C12: a batch that arrives while the channel holds its capacity is dropped, and
\* the queued batches stay as they were, in order
C12_DropNewestOnFull ==
    [][(Len(queue) >= Capacity /\ received' = received + 1) => queue' = queue]_vars

---------------------------------------------------------------------------
(* ableton_client.py: AbletonTCPClient, and the proxy handler that calls it *)

\* a lock that lets every caller in
can_enter_unlocked(lk) == TRUE

\* with self._lock: the lock is free
can_enter(lk) == lk = 0

\* AbletonTCPClient.connect: nothing to do with a socket at hand; else a new
\* connection, which the peer accepts (ok) or refuses
connect(sk, conns, n, ok) ==
    IF sk # 0 THEN [raised |-> FALSE, sock |-> sk, open |-> conns, opened |-> n]
    ELSE IF ok
    THEN [raised |-> FALSE, sock |-> n + 1, open |-> conns \cup {n + 1}, opened |-> n + 1]
    ELSE [raised |-> TRUE, sock |-> sk, open |-> conns, opened |-> n]

\* a disconnect that forgets to close and clear the socket
disconnect_keeps_sock(sk, conns) == [sock |-> sk, open |-> conns]

\* a disconnect that closes the socket and keeps it as the client's socket
disconnect_keeps_reference(sk, conns) == [sock |-> sk, open |-> conns \ {sk}]

\* AbletonTCPClient.disconnect
disconnect(sk, conns) ==
    IF sk # 0 THEN [sock |-> 0, open |-> conns \ {sk}] ELSE [sock |-> sk, open |-> conns]

Reply(status, has_result, result, has_message, message) ==
    [kind |-> "dict", status |-> status, has_result |-> has_result, result |-> result,
     has_message |-> has_message, message |-> message]

\* what the peer may do after a request: answer with a JSON object, answer with
\* JSON that is no object, send bytes that never parse, close without data, or
\* stay silent until the 10 s timeout
Failure(kind) == [NoReply EXCEPT !.kind = kind]

Replies ==
    {Reply("success", TRUE, "r1", FALSE, ""),
     Reply("success", FALSE, "", FALSE, ""),
     Reply("", TRUE, "r1", FALSE, ""),
     Reply("error", TRUE, "r1", TRUE, "boom"),
     Reply("error", FALSE, "", FALSE, "")}

PeerOutcomes ==
    Replies \cup {Failure("notdict"), Failure("unparsable"), Failure("closed"),
                  Failure("timeout")}

DefaultMessage == "Unknown error from Ableton"
EmptyResult == "{}"

\* AbletonTCPClient._receive_full_response
receive_full_response(outcome) ==
    IF outcome.kind \in {"dict", "notdict"}
    THEN [raised |-> FALSE, message |-> "", response |-> outcome]
    ELSE IF outcome.kind = "closed"
    THEN [raised |-> TRUE, message |-> "No data received from Ableton", response |-> outcome]
    ELSE [raised |-> TRUE, message |-> outcome.kind, response |-> outcome]

\* a reading of the response that returns the result whatever the status
command_result_ignores_status(response) ==
    IF response.kind # "dict"
    THEN [raised |-> TRUE, message |-> "AttributeError", result |-> ""]
    ELSE [raised |-> FALSE, message |-> "",
          result |-> IF response.has_result THEN response.result ELSE EmptyResult]

\* send_command, lines 53-55
command_result(response) ==
    IF response.kind # "dict"
    THEN [raised |-> TRUE, message |-> "AttributeError", result |-> ""]
    ELSE IF response.status = "error"
    THEN [raised |-> TRUE,
          message |-> IF response.has_message THEN response.message ELSE DefaultMessage,
          result |-> ""]
    ELSE [raised |-> FALSE, message |-> "",
          result |-> IF response.has_result THEN response.result ELSE EmptyResult]

\* the call of worker t ends with an exception: the except branch of send_command
\* disconnects, the lock is released and ableton_command answers 400
CallFails(t, message, reply, sent, sk, conns) ==
    LET d == disconnect(sk, conns)
    IN /\ sock' = d.sock
       /\ open_conns' = d.open
       /\ lock' = 0
       /\ caller' = [caller EXCEPT ![t] = IdleCaller]
       /\ last_call' = [thread |-> t, http |-> 400, result |-> "", detail |-> message,
                        reply |-> reply, sent |-> sent,
                        entered_with |-> caller[t].entered_with, used |-> sk,
                        left |-> d.sock]

\* POST /api/ableton/command: the checks before send_command
CallBegin(t, has_type) ==
    /\ running
    /\ caller[t].pc = "idle"
    /\ calls < MaxCalls
    /\ calls' = calls + 1
    /\ IF has_type
       THEN /\ caller' = [caller EXCEPT ![t].pc = "waiting"]
            /\ last_call' = last_call
       ELSE /\ caller' = caller
            /\ last_call' = [NoCall EXCEPT !.thread = t, !.http = 400,
                                           !.detail = "type is required",
                                           !.used = sock, !.left = sock]
    /\ UNCHANGED <<now, running, cfgVars, discVars, recent, queue, rxVars, engVars,
                   apiVars, lock, sock, open_conns, opened>>
    /\ UNCHANGED syncVars
    /\ late' = late

\* send_command: the lock is taken and connect() runs
Enter(t, ok) ==
    /\ caller[t].pc = "waiting"
    /\ can_enter(lock)
    /\ LET c == connect(sock, open_conns, opened, ok)
       IN /\ opened' = c.opened
          /\ IF c.raised
             THEN CallFails(t, "connect failed", NoReply, FALSE, c.sock, c.open)
             ELSE /\ lock' = t
                  /\ sock' = c.sock
                  /\ open_conns' = c.open
                  /\ caller' = [caller EXCEPT ![t].pc = "connected",
                                               ![t].entered_with = sock]
                  /\ last_call' = last_call
    /\ UNCHANGED <<now, running, cfgVars, discVars, recent, queue, rxVars, engVars,
                   apiVars, calls>>
    /\ UNCHANGED syncVars
    /\ late' = late

\* send_command: sendall of the request on self._sock
Send(t, ok) ==
    /\ caller[t].pc = "connected"
    /\ IF ok /\ sock # 0
       THEN /\ caller' = [caller EXCEPT ![t].pc = "sent"]
            /\ UNCHANGED <<lock, sock, open_conns, last_call>>
       ELSE CallFails(t, "send failed", NoReply, FALSE, sock, open_conns)
    /\ UNCHANGED <<now, running, cfgVars, discVars, recent, queue, rxVars, engVars,
                   apiVars, opened, calls>>
    /\ UNCHANGED syncVars
    /\ late' = late

\* send_command: the response is read and judged, and the call returns
Recv(t, outcome) ==
    /\ caller[t].pc = "sent"
    /\ caller[t].stream = ""
    /\ LET r == receive_full_response(outcome)
           c == command_result(r.response)
       IN IF sock = 0
          THEN CallFails(t, "socket closed", NoReply, TRUE, sock, open_conns)
          ELSE IF r.raised
          THEN CallFails(t, r.message, outcome, TRUE, sock, open_conns)
          ELSE IF c.raised
          THEN CallFails(t, c.message, outcome, TRUE, sock, open_conns)
          ELSE /\ lock' = 0
               /\ caller' = [caller EXCEPT ![t] = IdleCaller]
               /\ last_call' = [thread |-> t, http |-> 200, result |-> c.result,
                                detail |-> "", reply |-> outcome, sent |-> TRUE,
                                entered_with |-> caller[t].entered_with, used |-> sock,
                                left |-> sock]
               /\ UNCHANGED <<sock, open_conns>>
    /\ UNCHANGED <<now, running, cfgVars, discVars, recent, queue, rxVars, engVars,
                   apiVars, opened, calls>>
    /\ UNCHANGED syncVars
    /\ late' = IF outcome.kind = "timeout" /\ sock # 0 THEN late \cup {sock} ELSE late

InitClient == InitWith({Doc(DefaultSettings, <<>>)})

NextClient ==
    \/ Start
    \/ \E t \in Callers, has_type \in BOOLEAN : CallBegin(t, has_type)
    \/ \E t \in Callers, ok \in BOOLEAN : Enter(t, ok)
    \/ \E t \in Callers, ok \in BOOLEAN : Send(t, ok)
    \/ \E t \in Callers, outcome \in PeerOutcomes : Recv(t, outcome)

SpecClient == InitClient /\ [][NextClient]_vars

---------------------------------------------------------------------------
(* The command client: one request in flight, one connection, error replies *)

Inside(t) == caller[t].pc \in {"connected", "sent"}

\* C13: while one caller of send_command is between connect and the end of its
\* response read, no other caller is: it holds the lock and the others wait
C13_OneRequestInFlight ==
    \A t \in Callers :
        Inside(t) => /\ lock = t
                     /\ \A u \in Callers \ {t} : ~Inside(u)

\* a request is in flight while the other worker waits for the lock
C13_Witness ==
    \E t, u \in Callers :
        /\ caller[t].pc = "sent"
        /\ caller[u].pc = "waiting"

\* the last request reached send_command and failed there
SendCommandFailed ==
    /\ last_call.http = 400
    /\ last_call.detail # "type is required"

C14_State ==
    /\ SendCommandFailed => last_call.left = 0
    /\ last_call.http = 200 => (last_call.used # 0 /\ last_call.left = last_call.used)
    /\ Cardinality(open_conns) <= 1
    /\ open_conns = IF sock = 0 THEN {} ELSE {sock}

C14_Step ==
    \A t \in Callers :
        /\ (caller[t].pc = "waiting" /\ caller'[t].pc = "connected") =>
              IF sock = 0
              THEN opened' = opened + 1 /\ sock' = opened'
              ELSE opened' = opened /\ sock' = sock
        /\ (caller[t].pc = "connected" /\ caller'[t].pc = "sent") =>
              (sock # 0 /\ sock \in open_conns)

\* C14: a failed send_command leaves the client without a connection and the next
\* call opens a new one before it writes; a successful call keeps the connection
\* and the next call reuses it; at most one connection is open at any time
C14_FailureDropsConnection == []C14_State /\ [][C14_Step]_vars

\* a call that succeeded on a reused connection, after an earlier failure had
\* made the client reconnect
C14_Witness ==
    /\ last_call.http = 200
    /\ last_call.entered_with # 0
    /\ opened >= 2

\* C15: a reply with status "error" makes the request fail with the peer's
\* message, or the default message when the reply has none, and no result; a
\* result is returned only for a reply whose status is not "error"
C15_ErrorStatusFails ==
    /\ last_call.reply.kind = "dict" =>
          IF last_call.reply.status = "error"
          THEN /\ last_call.http = 400
               /\ last_call.result = ""
               /\ last_call.detail = IF last_call.reply.has_message
                                     THEN last_call.reply.message ELSE DefaultMessage
          ELSE /\ last_call.http = 200
               /\ last_call.result = IF last_call.reply.has_result
                                     THEN last_call.reply.result ELSE EmptyResult
    /\ last_call.http = 200 =>
          (last_call.reply.kind = "dict" /\ last_call.reply.status # "error")

\* an error reply without a message, answered with the default message
C15_Witness ==
    /\ last_call.reply.kind = "dict"
    /\ last_call.reply.status = "error"
    /\ ~last_call.reply.has_message
    /\ last_call.http = 400
    /\ last_call.detail = DefaultMessage

---------------------------------------------------------------------------
(* Reload against mutation, and reload of an unreadable file *)

\* C16: a reload never falls between the read and the write of a mutation: while
\* the PUT handler holds the mapping it read, the in-memory config is not replaced
C16_ReloadNeverInsideMutation ==
    [][(rtr.pc = "listed" /\ rtr'.pc = "listed") => config' = config]_vars

\* the watcher's reload finds a file that does not parse
ReloadOfUnreadableFile ==
    /\ fs_event
    /\ ~fs_event'
    /\ file.kind = "corrupt"

\* C17: every load of an unreadable file leaves the default settings and an empty
\* mapping list in memory, whatever was loaded or mutated before
C17_UnreadableFileGivesDefaults ==
    [][ReloadOfUnreadableFile => config' = DEFAULT_CONFIG]_vars

---------------------------------------------------------------------------
(* Readers of the persisted file while it is written *)

\* web worker t reads the file with _locked_read_json
WebReads(t) == web[t].pc = "idle" /\ web'[t].pc = "read"

\* the watcher's load_config reads the file
RouterReads == fs_event /\ ~fs_event'

\* C18: whatever the interleaving of a writer with readers, every read of the
\* persisted file finds a complete document, never an empty or truncated one
C18_ReadersSeeCompleteDocument ==
    [][((\E t \in WebThreads : WebReads(t)) \/ RouterReads) => file.kind = "json"]_vars

---------------------------------------------------------------------------
(* Validation of what the file based mapping API stores; the router reloads it *)

\* smoothing outside [0,1], a negative index, a null index, and a valid payload
ValidationCreatePayloads ==
    {[target |-> T012, smoothing |-> JNum(Tenths(15))],
     [target |-> T012, smoothing |-> JNum(0 - Tenths(5))],
     [target |-> Target(JNum(0 - 1), JNum(0), JNum(1))],
     [target |-> Target(JNum(0), JNull, JNum(1))],
     [target |-> T012, smoothing |-> JNum(Tenths(5))]}

ValidationUpdatePayloads ==
    {[smoothing |-> JNum(Tenths(15))],
     [track_index |-> JNum(0 - 1)],
     [device_index |-> JNull]}

InitValidation == InitWith(ApiDocs)

NextValidation ==
    \/ Start
    \/ WatcherReload
    \/ \E p \in ValidationCreatePayloads : WebBegin(1, "create", "a", p)
    \/ \E p \in ValidationUpdatePayloads : WebBegin(1, "update", "a", p)
    \/ WebDecide(1)
    \/ WebDump(1)

SpecValidation == InitValidation /\ [][NextValidation]_vars

\* the mappings held in memory and in the file
StoredMappings ==
    Range(config.mappings) \cup (IF file.kind = "json" THEN Range(mappings_of(file)) ELSE {})

\* C19: every mapping stored by a create or an update has its smoothing in [0,1]
C19_StoredSmoothingClamped ==
    \A m \in StoredMappings :
        /\ m.smoothing.type = "number"
        /\ 0 <= m.smoothing.value
        /\ m.smoothing.value <= Scale

BadIndexValue(v) == v.type # "number" \/ v.value < 0

IndexKeys == {"track_index", "device_index", "parameter_index"}

\* a create payload whose target lacks an index or has a negative one
CreateBad(payload) ==
    LET target == payload_target(payload)
    IN \/ ~target.isdict
       \/ \E k \in IndexKeys : BadIndexValue(target[k])

\* an update payload that sets an index to null or to a negative number
UpdateBad(payload) ==
    \E k \in IndexKeys \cap DOMAIN payload : BadIndexValue(payload[k])

\* C20: every stored mapping has three non-negative integer indices, and a create
\* or update whose payload lacks an index or has a negative one is answered 400
C20_StoredIndicesValid ==
    /\ \A m \in StoredMappings :
          \A k \in IndexKeys : ~BadIndexValue(m.target[k])
    /\ (resp.op = "create" /\ CreateBad(resp.payload)) => resp.status = 400
    /\ (resp.op = "update" /\ UpdateBad(resp.payload) /\ resp.status # 404) =>
          resp.status = 400

---------------------------------------------------------------------------
(* router.py: create_mapping_from_last_param and POST /api/mappings/create-from-last *)

Selection(type, data) == [type |-> type, data |-> data]

\* the result objects the application may return for get_last_selected_parameter,
\* by name; any other result is an object without "type"
LastSelected(result) ==
    CASE result = "sel_param" ->
           Selection("parameter", [track_index |-> JNum(0), device_index |-> JNum(1),
                                   param_index |-> JNum(2)])
      [] result = "sel_param_alt" ->
           Selection("parameter", [track_index |-> JNum(0), device_index |-> JNum(0),
                                   parameter_index |-> JNum(1)])
      [] result = "sel_param_both" ->
           Selection("parameter", [track_index |-> JNum(0), device_index |-> JNum(1),
                                   param_index |-> JNull, parameter_index |-> JNum(2)])
      [] result = "sel_no_device" ->
           Selection("parameter", [track_index |-> JNum(0), param_index |-> JNum(2)])
      [] result = "sel_track" ->
           Selection("track", [track_index |-> JNum(0), device_index |-> JNum(1),
                               param_index |-> JNum(2)])
      [] result = "sel_no_data" -> Selection("parameter", EmptyPayload)
      [] OTHER -> Selection("", EmptyPayload)

SelectionReplies ==
    {Reply("success", TRUE, r, FALSE, "") :
        r \in {"sel_param", "sel_param_alt", "sel_param_both", "sel_no_device",
               "sel_track", "sel_no_data"}}
    \cup {Reply("success", FALSE, "", FALSE, ""),
          Reply("error", FALSE, "", TRUE, "boom"),
          Failure("timeout")}

\* the indices create_mapping_from_last_param reads from the selection's data
selected_indices(data) ==
    [track_index |-> Get(data, "track_index", JNull),
     device_index |-> Get(data, "device_index", JNull),
     param_index |-> Get(data, "param_index", Get(data, "parameter_index", JNull))]

\* a reading of the selection that does not look at its type
from_last_any_type(motion_stream, last_selected) ==
    LET i == selected_indices(last_selected.data)
    IN IF \E k \in DOMAIN i : i[k].type # "number"
       THEN [raised |-> TRUE, message |-> "Last selected parameter is missing indices",
             mapping |-> NoMapping]
       ELSE [raised |-> FALSE, message |-> "",
             mapping |-> Mapping(motion_stream,
                                 Target(i.track_index, i.device_index, i.param_index),
                                 0, 1, JNum(0), TRUE)]

\* create_mapping_from_last_param, lines 300-329: the mapping built from the
\* selection, or the error raised
from_last(motion_stream, last_selected) ==
    LET i == selected_indices(last_selected.data)
    IN IF last_selected.type # "parameter"
       THEN [raised |-> TRUE, message |-> "Last selected item is not a parameter",
             mapping |-> NoMapping]
       ELSE IF \E k \in DOMAIN i : i[k].type # "number"
       THEN [raised |-> TRUE, message |-> "Last selected parameter is missing indices",
             mapping |-> NoMapping]
       ELSE [raised |-> FALSE, message |-> "",
             mapping |-> Mapping(motion_stream,
                                 Target(i.track_index, i.device_index, i.param_index),
                                 0, 1, JNum(0), TRUE)]

\* POST /api/mappings/create-from-last: the check of the payload
FromLastBegin(t, motion_stream) ==
    /\ running
    /\ caller[t].pc = "idle"
    /\ calls < MaxCalls
    /\ calls' = calls + 1
    /\ IF motion_stream # ""
       THEN /\ caller' = [caller EXCEPT ![t].pc = "waiting", ![t].stream = motion_stream]
            /\ last_call' = last_call
       ELSE /\ caller' = caller
            /\ last_call' = [NoCall EXCEPT !.thread = t, !.http = 400,
                                           !.detail = "motion_stream is required",
                                           !.used = sock, !.left = sock]
    /\ UNCHANGED <<now, running, cfgVars, discVars, recent, queue, rxVars, engVars,
                   apiVars, lock, sock, open_conns, opened>>
    /\ UNCHANGED syncVars
    /\ late' = late

\* the answer to get_last_selected_parameter arrives, and the rest of
\* create_mapping_from_last_param runs
RecvFromLast(t, outcome) ==
    /\ caller[t].pc = "sent"
    /\ caller[t].stream # ""
    /\ LET r == receive_full_response(outcome)
           c == command_result(r.response)
           m == from_last(caller[t].stream, LastSelected(c.result))
           failed == sock = 0 \/ r.raised \/ c.raised
       IN /\ IF failed
             THEN CallFails(t, IF r.raised THEN r.message ELSE c.message, outcome, TRUE,
                            sock, open_conns)
             ELSE /\ lock' = 0
                  /\ caller' = [caller EXCEPT ![t] = IdleCaller]
                  /\ last_call' = [thread |-> t, http |-> IF m.raised THEN 400 ELSE 200,
                                   result |-> c.result, detail |-> m.message,
                                   reply |-> outcome, sent |-> TRUE,
                                   entered_with |-> caller[t].entered_with,
                                   used |-> sock, left |-> sock]
                  /\ UNCHANGED <<sock, open_conns>>
          /\ Persist(IF failed \/ m.raised THEN [ok |-> FALSE, cfg |-> config]
                     ELSE add_mapping(config, m.mapping))
    /\ UNCHANGED <<now, running, discVars, recent, queue, rxVars, engVars, apiVars,
                   opened, calls>>
    /\ UNCHANGED syncVars
    /\ late' = IF outcome.kind = "timeout" /\ sock # 0 THEN late \cup {sock} ELSE late

InitFromLast == InitWith(ApiDocs)

NextFromLast ==
    \/ Start
    \/ WatcherReload
    \/ \E t \in Callers, s \in Streams \cup {""} : FromLastBegin(t, s)
    \/ \E t \in Callers, ok \in BOOLEAN : Enter(t, ok)
    \/ \E t \in Callers, ok \in BOOLEAN : Send(t, ok)
    \/ \E t \in Callers, outcome \in SelectionReplies : RecvFromLast(t, outcome)

SpecFromLast == InitFromLast /\ [][NextFromLast]_vars

---------------------------------------------------------------------------
(* Create from the last selected parameter *)

\* the create-from-last request of worker t ends in this step
FromLastEnds(t) ==
    /\ caller[t].stream # ""
    /\ caller[t].pc # "idle"
    /\ caller'[t].pc = "idle"

\* the parameter index a selection reports, under either of its two names
ReportedParam(data) ==
    IF Get(data, "param_index", JNull).type = "number" THEN data.param_index
    ELSE Get(data, "parameter_index", JNull)

ReportedTarget(data) ==
    <<Get(data, "track_index", JNull), Get(data, "device_index", JNull),
      ReportedParam(data)>>

\* the query failed, the selection is no parameter, or an index is missing
NoUsableSelection(call) ==
    \/ ~call.sent
    \/ call.reply.kind # "dict"
    \/ call.reply.status = "error"
    \/ LastSelected(call.result).type # "parameter"
    \/ \E i \in 1..3 : ReportedTarget(LastSelected(call.result).data)[i].type # "number"

C21_Step(t) ==
    LET call == last_call'
        sel == LastSelected(call.result)
        stream == caller[t].stream
        mine == SelectSeq(config'.mappings, LAMBDA m : m.motion_stream = stream)
    IN /\ NoUsableSelection(call) => (call.http = 400 /\ UNCHANGED <<config, file>>)
       /\ call.http # 200 => UNCHANGED <<config, file>>
       /\ call.http = 200 =>
             /\ ~NoUsableSelection(call)
             /\ Len(mine) = 1
             /\ <<mine[1].target.track_index, mine[1].target.device_index,
                  mine[1].target.parameter_index>> = ReportedTarget(sel.data)
             /\ WithoutStream(config'.mappings, stream) = WithoutStream(config.mappings, stream)

\* C21: create-from-last stores a mapping only for a selection of type "parameter"
\* with all three indices, and its target is those indices; when the query fails,
\* the type differs or an index is missing the request fails and nothing changes
C21_CreateFromLastSelection ==
    [][\A t \in Callers : FromLastEnds(t) => C21_Step(t)]_vars

\* a mapping for stream b built from a selection that names its parameter index
\* "parameter_index"
C21_Witness ==
    /\ last_call.http = 200
    /\ last_call.result = "sel_param_alt"
    /\ \E i \in DOMAIN config.mappings :
          /\ config.mappings[i].motion_stream = "b"
          /\ config.mappings[i].target = T001

---------------------------------------------------------------------------
(* Update of a mapping *)

\* new_list is old_list with the mapping of the stream replaced, under the same
\* key, with the fields of the payload; nothing added, removed or moved
ReplacedOnly(old_list, new_list, motion_stream, payload) ==
    /\ Len(new_list) = Len(old_list)
    /\ \A i \in DOMAIN old_list :
          IF old_list[i].motion_stream = motion_stream
          THEN /\ new_list[i].motion_stream = motion_stream
               /\ new_list[i].enabled = Get(payload, "enabled", old_list[i].enabled)
          ELSE new_list[i] = old_list[i]

\* the step in which web worker t answers an update request
WebUpdateAnswers(t) ==
    /\ web[t].op = "update"
    /\ web[t].pc \in {"read", "writing"}
    /\ web'[t].pc = "idle"

C22_WebUpdate(t) ==
    LET r == web[t]
    IN IF HasStream(mappings_of(r.read), r.stream)
       THEN /\ resp'.status = 200
            /\ file'.kind = "json"
            /\ ReplacedOnly(mappings_of(r.read), mappings_of(file'), r.stream, r.payload)
       ELSE /\ resp'.status = 404
            /\ UNCHANGED <<file, config>>

\* the step in which the router's PUT handler looks the mapping up
RouterUpdateLooksUp ==
    /\ requests' = requests + 1
    /\ web' = web
    /\ \/ rtr'.pc = "listed"
       \/ (rtr' = rtr /\ resp'.api = "router" /\ resp'.op = "update")

C22_RouterLookUp ==
    /\ UNCHANGED <<file, config>>
    /\ IF rtr'.pc = "listed"
       THEN HasStream(config.mappings, rtr'.stream)
       ELSE resp'.status = 404 /\ ~HasStream(config.mappings, resp'.stream)

\* the step in which the router's PUT handler writes
RouterUpdateWrites == rtr.pc = "listed" /\ rtr'.pc = "idle"

C22_RouterWrite ==
    IF HasStream(config.mappings, rtr.stream)
    THEN /\ resp'.status = 200
         /\ ReplacedOnly(config.mappings, config'.mappings, rtr.stream, rtr.payload)
    ELSE /\ resp'.status # 200
         /\ UNCHANGED <<file, config>>

---------------------------------------------------------------------------
(* Order of processing *)

\* the listener queues a batch: behind every batch already queued
EnqueueStep == received' = received + 1

C23_Enqueue ==
    /\ Len(queue') = Len(queue) + 1
    /\ SubSeq(queue', 1, Len(queue)) = queue

\* the engine takes a batch: the oldest one, and only when every entry of the
\* batch before it has been routed; the live values take its numeric entries
PopStep == popped' = popped + 1

C23_Pop ==
    /\ engine = "idle"
    /\ cur = <<>>
    /\ queue' = Tail(queue)
    /\ engine' # "crashed" =>
          /\ cur' = Head(queue).batch
          /\ \A i \in DOMAIN Head(queue).batch :
                LET e == Head(queue).batch[i]
                IN e.value.type = "number" =>
                      /\ e.stream \in DOMAIN current_stream_values'
                      /\ current_stream_values'[e.stream] = e.value.value

\* the engine routes an entry: the next one of the batch in progress
RouteStep == popped' = popped /\ cur' # cur

C23_Route ==
    /\ engine = "batch"
    /\ cur' = Tail(cur)
    /\ queue' = queue
    /\ last_entry' # last_entry => last_entry'.stream = Head(cur).stream

\* C23: batches are processed in the order they arrived: a batch is queued behind
\* the earlier ones, taken only after every entry of the earlier ones was routed,
\* and the live values then hold its value for each of its numeric streams
C23_ArrivalOrder ==
    [][/\ EnqueueStep => C23_Enqueue
       /\ PopStep => C23_Pop
       /\ RouteStep => C23_Route
       /\ queue' # queue => (EnqueueStep \/ PopStep)]_vars

\* a second batch has been routed, with a dispatch, after the first
C23_Witness ==
    /\ popped >= 2
    /\ engine = "idle"
    /\ last_entry.valid
    /\ last_entry.sent # <<>>

---------------------------------------------------------------------------
(* Normalisation of the document on load: the router's ConfigManager and the MCP
   server's _load_mappings_config read the same mappings.json *)

\* MCP_Server/server.py _load_mappings_config, over _ensure_mappings_file and
\* _locked_read_json, which are the same as the web UI's
load_mappings_config(f) ==
    LET data == locked_read_json(ensure_mappings_file(f))
    IN [settings |-> IF data.has_settings THEN data.settings ELSE EmptySettings,
        mappings |-> IF data.has_mappings THEN data.mappings ELSE <<>>]

LoadMappings == <<Mapping("a", T012, 20, 80, JNum(0), TRUE)>>

\* documents with and without the two top-level keys
LoadDocs ==
    {Doc(NoDiscoverySettings, LoadMappings),
     [Doc(EmptySettings, LoadMappings) EXCEPT !.has_settings = FALSE],
     [Doc(NoDiscoverySettings, <<>>) EXCEPT !.has_mappings = FALSE],
     [Doc(EmptySettings, <<>>) EXCEPT !.has_settings = FALSE, !.has_mappings = FALSE]}

InitLoad == InitWith({Doc(NoDiscoverySettings, LoadMappings)})

NextLoad ==
    \/ Start
    \/ \E doc \in LoadDocs : ExternalEdit(doc)
    \/ WatcherReload
    \/ \E d \in Datagrams : Receive(d)
    \/ EnginePop
    \/ EngineEntry

SpecLoad == InitLoad /\ [][NextLoad]_vars

\* the watcher's load_config reads a document that parses
LoadOfDocument == fs_event /\ ~fs_event' /\ file.kind = "json"

\* the keys the document has are kept as in the file, by both loaders
PresentKeysKept(loaded) ==
    /\ file.has_settings => loaded.settings = file.settings
    /\ file.has_mappings => loaded.mappings = file.mappings

---------------------------------------------------------------------------
(* Teardown: SmartRouter.stop runs on the signal handler while API workers may be
   inside send_command *)

\* SmartRouter.stop: the flag is cleared, the receiver is stopped, and the
\* client's disconnect() is called without the client's lock
Stop ==
    /\ running
    /\ running' = FALSE
    /\ rx' = "stopped"
    /\ LET d == disconnect(sock, open_conns)
       IN /\ sock' = d.sock
          /\ open_conns' = d.open
    /\ UNCHANGED <<now, cfgVars, discVars, recent, queue, rx_seen_bad, received, engVars,
                   apiVars, lock, opened, caller, calls, last_call>>
    /\ UNCHANGED syncVars
    /\ late' = late

InitTeardown == InitWith({Doc(DefaultSettings, <<>>)})

NextTeardown ==
    \/ Start
    \/ \E t \in Callers, has_type \in BOOLEAN : CallBegin(t, has_type)
    \/ \E t \in Callers, ok \in BOOLEAN : Enter(t, ok)
    \/ \E t \in Callers, ok \in BOOLEAN : Send(t, ok)
    \/ \E t \in Callers, outcome \in PeerOutcomes : Recv(t, outcome)
    \/ Stop

SpecTeardown == InitTeardown /\ [][NextTeardown]_vars

\* worker t has written its request and stays inside the response read
InFlight(t) == caller[t].pc = "sent" /\ caller'[t].pc = "sent"

\* C25: while a send_command call is between its request write and the end of
\* its response read, the connection is not closed: teardown waits for the call
\* to complete or to hit its read timeout
C25_TeardownKeepsCallInFlight ==
    [][(\E t \in Callers : InFlight(t)) => (sock' = sock /\ open_conns' = open_conns)]_vars

---------------------------------------------------------------------------
(* Startup when the listen port cannot be bound *)

\* SmartRouter.start when bind() raises: UDPReceiver.start has set its flag and
\* returned, the exception ends only the receiver thread inside _run, and start
\* goes on to set _running and enter _main_loop
StartBindFails ==
    /\ ~running
    /\ engine = "created"
    /\ running' = TRUE
    /\ rx' = "bind_failed"
    /\ engine' = "idle"
    /\ UNCHANGED <<tcpVars, apiVars, now, cfgVars, discVars, recent, queue, rx_seen_bad,
                   received, cur, popped, last_values, current_stream_values, stream_values_file,
                   last_stream_values_write, last_entry>>
    /\ UNCHANGED syncVars

InitStartup == InitWith({Doc(DefaultSettings, ml) : ml \in GoodMappingLists})

NextStartup ==
    \/ Start
    \/ StartBindFails
    \/ \E d \in Datagrams : Receive(d)
    \/ EnginePop
    \/ EngineEntry
    \/ EngineTimeout
    \/ Tick

SpecStartup == InitStartup /\ [][NextStartup]_vars

\* C26: a listener that cannot bind its socket is fatal: the router is never in
\* the running state with its engine loop waiting on a queue no listener feeds
C26_BindFailureIsFatal ==
    rx = "bind_failed" => ~(running /\ engine = "idle")

---------------------------------------------------------------------------
(* Inverted ranges (checked under Spec) *)

Inverted(m) == m.range.ok /\ m.range.lo > m.range.hi

\* C27: a mapping whose range has out_min > out_max dispatches out_min, whatever
\* the raw sample, the smoothing factor and the previous smoothing state
C27_InvertedRangeGivesOutMin ==
    \A i \in DOMAIN last_entry.sent :
        Inverted(Eligible(last_entry)[i]) =>
            last_entry.sent[i].value = Eligible(last_entry)[i].range.lo * Scale

\* range [80, 20] with smoothing 0.5 met a sample above 0 whose key held a
\* different value before, and 80 was dispatched
C27_Witness ==
    \E i \in DOMAIN last_entry.sent :
        LET m == Eligible(last_entry)[i]
            a == last_entry.apps[i]
        IN /\ Inverted(m)
           /\ m.smoothing = JNum(Tenths(5))
           /\ a.had_prev
           /\ a.stored_before # a.cur
           /\ a.n > 0
           /\ last_entry.sent[i].value = 80 * Scale

---------------------------------------------------------------------------
(* Mappings with an incomplete target: batches of two entries meet mapping
   lists in which a track, device or parameter index is null or absent *)

SkipMappingLists ==
    {<<Mapping("a", Target(JNull, JNum(1), JNum(2)), 0, 1, JNum(Tenths(5)), TRUE),
       Mapping("a", T012, 0, 1, JNum(Tenths(5)), TRUE),
       Mapping("b", T001, 20, 80, JNum(0), TRUE)>>,
     <<Mapping("a", T012, 0, 1, JNum(Tenths(5)), TRUE),
       Mapping("a", Target(JNum(0), JNull, JNum(2)), 0, 1, JNum(Tenths(5)), TRUE),
       Mapping("b", Target(JNum(0), JNum(0), JNull), 20, 80, JNum(0), TRUE)>>,
     <<Mapping("a", Target(JNull, JNull, JNull), 0, 1, JNum(Tenths(5)), TRUE)>>}

SkipDocs == {Doc(DefaultSettings, ml) : ml \in SkipMappingLists}

SkipDatagrams ==
    {DictDatagram(<<Entry("a", JNum(Tenths(7))), Entry("b", JNum(Tenths(2)))>>),
     DictDatagram(<<Entry("b", JNum(Tenths(7))), Entry("a", JNum(Tenths(2)))>>),
     DictDatagram(<<Entry("a", JNum(Tenths(10)))>>)}

InitSkip == InitWith(SkipDocs)

NextSkip ==
    \/ Start
    \/ \E d \in SkipDatagrams : Receive(d)
    \/ EnginePop
    \/ EngineEntry
    \/ \E doc \in SkipDocs : HotReload(doc)

SpecSkip == InitSkip /\ [][NextSkip]_vars

\* the enabled mappings of the routed entry's stream, in config order
Selected(le) ==
    SelectSeq(le.mappings, LAMBDA m : m.isobj /\ m.enabled /\ m.motion_stream = le.stream)

\* a target that lacks one of the three indices
Incomplete(m) ==
    /\ m.target.isdict
    /\ \/ m.target.track_index.type = "null"
       \/ m.target.device_index.type = "null"
       \/ m.target.parameter_index.type = "null"

HasIncomplete(le) == \E i \in DOMAIN Selected(le) : Incomplete(Selected(le)[i])

\* every mapping of the entry is either incomplete or well formed
OnlySkipsAndGood(le) ==
    /\ \A i \in DOMAIN le.mappings : le.mappings[i].isobj
    /\ \A i \in DOMAIN Selected(le) :
         LET m == Selected(le)[i]
         IN Incomplete(m) \/ (Complete(m.target) /\ m.smoothing.type = "number")

KeyOf(le, m) == smoothing_key(le.stream, m.target)

\* an entry was routed whose mappings include an incomplete one: nothing was
\* raised, the dispatches are those of the complete mappings, in order, and no
\* key of an incomplete mapping is stored
C28_Skipped ==
    (last_entry.valid /\ HasIncomplete(last_entry) /\ OnlySkipsAndGood(last_entry)) =>
        /\ ~last_entry.raised
        /\ engine # "crashed"
        /\ Len(last_entry.sent) = Len(Eligible(last_entry))
        /\ \A i \in DOMAIN last_entry.sent :
             TargetOfMapping(Eligible(last_entry)[i]) =
                <<JNum(last_entry.sent[i].track_index),
                  JNum(last_entry.sent[i].device_index),
                  JNum(last_entry.sent[i].parameter_index)>>
        /\ \A i \in DOMAIN Selected(last_entry) :
             Incomplete(Selected(last_entry)[i]) =>
                KeyOf(last_entry, Selected(last_entry)[i]) \notin DOMAIN last_values

\* the step that routes such an entry goes on to the rest of the batch and
\* changes the smoothing state only under the keys of the complete mappings
C28_SkipStep ==
    (/\ last_entry' # last_entry
     /\ last_entry'.valid
     /\ HasIncomplete(last_entry')
     /\ OnlySkipsAndGood(last_entry')) =>
        /\ cur' = Tail(cur)
        /\ engine' = IF Tail(cur) = <<>> THEN "idle" ELSE "batch"
        /\ \A k \in DOMAIN last_values' :
             \/ k \in DOMAIN last_values /\ last_values'[k] = last_values[k]
             \/ \E i \in DOMAIN Eligible(last_entry') :
                  k = KeyOf(last_entry', Eligible(last_entry')[i])
        /\ DOMAIN last_values \subseteq DOMAIN last_values'

\* C28: applying a mapping whose target lacks track_index, device_index or
\* parameter_index dispatches nothing, raises nothing and leaves the smoothing
\* state as it was; the other mappings of the entry and the other entries of
\* the batch are still applied
C28_IncompleteTargetSkipped == []C28_Skipped /\ [][C28_SkipStep]_vars

\* the batch {"b": 0.7, "a": 0.2} was routed under the second list: the b entry
\* met only an incomplete mapping, and the a entry after it was dispatched once
\* past its incomplete mapping
C28_Witness ==
    /\ received = 1
    /\ popped = 1
    /\ engine = "idle"
    /\ last_entry.valid
    /\ last_entry.stream = "a"
    /\ last_entry.raw = Tenths(2)
    /\ HasIncomplete(last_entry)
    /\ Len(last_entry.sent) = 1
    /\ DOMAIN last_values = {smoothing_key("a", T012)}

---------------------------------------------------------------------------
(* The smoothing state under samples, reloads and mapping changes: the engine
   runs while mappings.json is edited and the router API updates and deletes *)

SmoothingMappingLists ==
    {<<Mapping("a", T012, 0, 1, JNum(Tenths(20)), TRUE)>>,
     <<Mapping("a", T012, 0, 1, JNum(Tenths(-10)), TRUE),
       Mapping("a", T001, 20, 80, JNum(Tenths(5)), TRUE)>>}

SmoothingDocs == {Doc(DefaultSettings, ml) : ml \in SmoothingMappingLists}

SmoothingDatagrams ==
    {DictDatagram(<<Entry("a", JNum(Tenths(-50)))>>),
     DictDatagram(<<Entry("a", JNum(Tenths(20))), Entry("a", JNum(Tenths(7)))>>)}

InitSmoothing == InitWith(SmoothingDocs)

NextSmoothing ==
    \/ Start
    \/ \E d \in SmoothingDatagrams : Receive(d)
    \/ EnginePop
    \/ EngineEntry
    \/ \E doc \in SmoothingDocs : HotReload(doc)
    \/ WatcherReload
    \/ \E p \in UpdatePayloads : RouterUpdateBegin("a", p)
    \/ RouterUpdateEnd
    \/ RouterDelete("a")

SpecSmoothing == InitSmoothing /\ [][NextSmoothing]_vars

\* every stored value lies in [0, 1]
C29_InUnitInterval ==
    \A k \in DOMAIN last_values : 0 <= last_values[k] /\ last_values[k] <= Scale

\* no entry is ever removed, and a step that changes the config or the file (a
\* reload, a mapping update, a mapping deletion) leaves every entry as it is
C29_EntriesKept ==
    /\ DOMAIN last_values \subseteq DOMAIN last_values'
    /\ (config' # config \/ file' # file \/ resp' # resp) => last_values' = last_values

\* C29: in every reachable state each value of the smoothing state lies in
\* [0, 1], whatever the samples, the smoothing factors of the config (also
\* outside [0, 1]), the reloads and the mapping changes; entries are never
\* removed or reset by a reload, a mapping update or a mapping deletion
C29_SmoothingStateBounded == []C29_InUnitInterval /\ [][C29_EntriesKept]_vars

\* a sample was blended under a smoothing factor of 2.0, and its entry is still
\* there after the mapping was deleted through the API
C29_Witness ==
    /\ resp.op = "delete"
    /\ resp.status = 200
    /\ config.mappings = <<>>
    /\ last_entry.valid
    /\ \E i \in DOMAIN last_entry.sent :
         /\ last_entry.mappings[i].smoothing = JNum(Tenths(20))
         /\ last_entry.apps[i].had_prev
         /\ last_entry.apps[i].key \in DOMAIN last_values
         /\ last_values[last_entry.apps[i].key] > 0

---------------------------------------------------------------------------
(* Rate limit of the discovery side file (checked under SpecDiscovery) *)

DiscoveryOn(cfg) == Get(cfg.settings, "auto_discover_streams", TRUE)
CacheInterval(cfg) == Get(cfg.settings, "streams_cache_interval", DefaultInterval)

\* register_streams writes streams.json in this step
Persists == cache_tick' # cache_tick

\* C30: with auto-discovery enabled register_streams persists the list only
\* when at least streams_cache_interval has passed since the previous persist,
\* so two consecutive persists are at least that far apart however many batches
\* arrive; with auto-discovery disabled it never writes the side file
C30_PersistRateLimited ==
    [][/\ Persists =>
            /\ DiscoveryOn(config)
            /\ now - last_streams_write >= CacheInterval(config)
            /\ last_streams_write' = now
       /\ ~Persists =>
            /\ last_streams_write' = last_streams_write
            /\ streams_cache' = streams_cache
       /\ (popped' # popped /\ ~DiscoveryOn(config)) => ~Persists]_vars

\* with an interval of 2 a second persist has just happened, two ticks after
\* the first, although both batches have been taken
C30_Witness ==
    /\ CacheInterval(config) = 2
    /\ DiscoveryOn(config)
    /\ popped = MaxBatches
    /\ cache_tick = 0
    /\ last_streams_write = StartTime + 2
    /\ now = StartTime + 2

---------------------------------------------------------------------------
(* The two mutexes, step by step: the main loop registers a batch's streams,
   writes the discovery cache and updates the live values, while an API worker
   lists the recent streams or reads the live values *)

Access(thread, structure, kind, held) ==
    [thread |-> thread, structure |-> structure, kind |-> kind, held |-> held]

\* _main_loop takes a payload and register_streams enters "with self._lock"
RegisterEnter ==
    /\ running
    /\ engine = "idle"
    /\ queue # <<>>
    /\ Head(queue).kind = "dict"
    /\ cm_lock = ""
    /\ cm_lock' = "engine"
    /\ queue' = Tail(queue)
    /\ popped' = popped + 1
    /\ cur' = Head(queue).batch
    /\ engine' = "registering"
    /\ last_entry' = NoEntry
    /\ UNCHANGED <<now, running, cfgVars, discVars, recent, rxVars, last_values,
                   current_stream_values, stream_values_file, last_stream_values_write,
                   apiVars, tcpVars, values_lock, access, wire, snapshot, udp, late_batch>>

\* register_streams, lines 114-116: the loop over the names, and the lock is left
RegisterWrite ==
    /\ engine = "registering"
    /\ stream_last_seen' = set_last_seen(stream_last_seen, stream_names(cur), now)
    /\ access' = Access("engine", "registry", "write", cm_lock = "engine")
    /\ cm_lock' = ""
    /\ engine' = "discovering"
    /\ UNCHANGED <<now, running, cfgVars, last_streams_write, streams_cache, cache_tick,
                   recent, queue, rxVars, cur, popped, last_values, current_stream_values,
                   stream_values_file, last_stream_values_write, last_entry,
                   apiVars, tcpVars, values_lock, wire, snapshot, udp, late_batch>>

\* register_streams, lines 118-119, and _maybe_write_streams_cache: the settings
\* are read through get_settings (its own "with self._lock"), the items of
\* _stream_last_seen are read with no lock taken
CacheScan ==
    /\ engine = "discovering"
    /\ cm_lock = ""
    /\ LET on == Get(get_settings(config), "auto_discover_streams", TRUE)
           w == maybe_write_streams_cache(config, stream_last_seen, last_streams_write,
                                          streams_cache, now)
       IN IF on /\ w.event = "written"
          THEN /\ last_streams_write' = w.last_write
               /\ streams_cache' = w.cache
               /\ cache_tick' = 1 - cache_tick
               /\ access' = Access("engine", "registry", "read", cm_lock = "engine")
          ELSE UNCHANGED <<last_streams_write, streams_cache, cache_tick, access>>
    /\ engine' = "values"
    /\ UNCHANGED <<now, running, cfgVars, stream_last_seen, recent, queue, rxVars, cur,
                   popped, last_values, current_stream_values, stream_values_file,
                   last_stream_values_write, last_entry, apiVars, tcpVars, cm_lock,
                   values_lock, wire, snapshot, udp, late_batch>>

\* _main_loop, line 121: "with self._values_lock"
ValuesEnter ==
    /\ engine = "values"
    /\ values_lock = ""
    /\ values_lock' = "engine"
    /\ engine' = "updating"
    /\ UNCHANGED <<now, running, cfgVars, discVars, recent, queue, rxVars, cur, popped,
                   last_values, current_stream_values, stream_values_file,
                   last_stream_values_write, last_entry, apiVars, tcpVars, cm_lock,
                   access, wire, snapshot, udp, late_batch>>

\* _main_loop, lines 122-124: the live values of the batch are stored, the lock
\* is left (also by an exception) and the routing of the entries begins
ValuesWrite ==
    /\ engine = "updating"
    /\ LET upd == update_values(current_stream_values, cur)
       IN /\ current_stream_values' = upd.values
          /\ engine' = IF upd.raised THEN "crashed"
                       ELSE IF cur = <<>> THEN "idle" ELSE "batch"
          /\ cur' = IF upd.raised THEN <<>> ELSE cur
    /\ access' = Access("engine", "values", "write", values_lock = "engine")
    /\ values_lock' = ""
    /\ UNCHANGED <<now, running, cfgVars, discVars, recent, queue, rxVars, popped,
                   last_values, stream_values_file, last_stream_values_write, last_entry,
                   apiVars, tcpVars, cm_lock, wire, snapshot, udp, late_batch>>

\* ConfigManager.get_recent_streams: "with self._lock"
ListEnter ==
    /\ running
    /\ cm_lock = ""
    /\ cm_lock' = "api"
    /\ UNCHANGED <<now, running, cfgVars, discVars, recent, queue, rxVars, engVars,
                   apiVars, tcpVars, values_lock, access, wire, snapshot, udp, late_batch>>

\* get_recent_streams: the comprehension over the items, and the lock is left
ListRead(within_seconds) ==
    /\ cm_lock = "api"
    /\ recent' = [at |-> now, within |-> within_seconds,
                  names |-> get_recent_streams(stream_last_seen, now, within_seconds)]
    /\ access' = Access("api", "registry", "read", cm_lock = "api")
    /\ cm_lock' = ""
    /\ UNCHANGED <<now, running, cfgVars, discVars, queue, rxVars, engVars,
                   apiVars, tcpVars, values_lock, wire, snapshot, udp, late_batch>>

\* GET /api/stream-values: "with self._values_lock"
StreamValuesEnter ==
    /\ running
    /\ values_lock = ""
    /\ values_lock' = "api"
    /\ UNCHANGED <<now, running, cfgVars, discVars, recent, queue, rxVars, engVars,
                   apiVars, tcpVars, cm_lock, access, wire, snapshot, udp, late_batch>>

\* stream_values: the copy of the dict, and the lock is left
StreamValuesRead ==
    /\ values_lock = "api"
    /\ snapshot' = [taken |-> TRUE, values |-> current_stream_values]
    /\ access' = Access("api", "values", "read", values_lock = "api")
    /\ values_lock' = ""
    /\ UNCHANGED <<now, running, cfgVars, discVars, recent, queue, rxVars, engVars,
                   apiVars, tcpVars, cm_lock, wire, udp, late_batch>>

LockDocs == {Doc(DefaultSettings, <<>>), Doc(NoDiscoverySettings, <<>>)}

\* a batch of two numeric entries, and one whose second entry is an integer too
\* large for float()
LockDatagrams ==
    {DictDatagram(<<Entry("a", JNum(Tenths(7))), Entry("b", JNum(Tenths(7)))>>),
     DictDatagram(<<Entry("a", JNum(Tenths(2))), Entry("b", JBig)>>)}

InitLocks == InitWith(LockDocs)

NextLocks ==
    \/ Start
    \/ Tick
    \/ \E d \in LockDatagrams : Receive(d)
    \/ RegisterEnter
    \/ RegisterWrite
    \/ CacheScan
    \/ ValuesEnter
    \/ ValuesWrite
    \/ EngineEntry
    \/ ListEnter
    \/ ListRead(DefaultTtl)
    \/ StreamValuesEnter
    \/ StreamValuesRead

SpecLocks == InitLocks /\ [][NextLocks]_vars

\* C31: every read and write of the config and of the stream registry happens
\* under the ConfigManager mutex, every read and write of the live values under
\* the values mutex: no access is made by a thread that does not hold the lock
C31_AccessesUnderMutex ==
    access.structure # "" => access.held


---------------------------------------------------------------------------
(* The response read, chunk by chunk. A byte is one of: the opening brace,
   the closing brace, a one-byte character, and the lead and continuation
   bytes of a two-byte UTF-8 character *)

MaxBuf == 5
ReadWindow == 4

Lead == "hi"
Continuation == "lo"
Filler == "x"

\* bytes.decode("utf-8"): every lead byte is followed by its continuation byte
\* and no continuation byte stands alone
RECURSIVE decodes(_)
decodes(bytes) ==
    IF bytes = <<>> THEN TRUE
    ELSE IF Head(bytes) = Lead
    THEN Len(bytes) >= 2 /\ bytes[2] = Continuation /\ decodes(Tail(Tail(bytes)))
    ELSE Head(bytes) # Continuation /\ decodes(Tail(bytes))

\* the text of decoded bytes
RECURSIVE Text(_)
Text(bytes) ==
    IF bytes = <<>> THEN ""
    ELSE IF Head(bytes) = Lead THEN "E9" \o Text(Tail(Tail(bytes)))
    ELSE Head(bytes) \o Text(Tail(bytes))

\* json.loads of decoded text: one object from its opening brace to its
\* closing brace, with no brace between them
is_document(bytes) ==
    /\ Len(bytes) >= 2
    /\ bytes[1] = "{"
    /\ bytes[Len(bytes)] = "}"
    /\ \A i \in 2..(Len(bytes) - 1) : bytes[i] \notin {"{", "}"}

loads(bytes) ==
    Reply("success", TRUE, Text(SubSeq(bytes, 2, Len(bytes) - 1)), FALSE, "")

\* lines 36-40 on the bytes read so far: the parsed response, "again" after
\* json.JSONDecodeError, or the UnicodeDecodeError that the except clause
\* does not name
try_parse(bytes) ==
    IF ~decodes(bytes) THEN [kind |-> "raised", response |-> NoReply]
    ELSE IF is_document(bytes) THEN [kind |-> "parsed", response |-> loads(bytes)]
    ELSE [kind |-> "again", response |-> NoReply]

\* chunks.append: the model keeps the first MaxBuf bytes, all that a parse of a
\* buffer this long depends on (the bytes after them are filler bytes)
append(buf, chunk) ==
    LET all == buf \o chunk
    IN IF Len(all) > MaxBuf THEN SubSeq(all, 1, MaxBuf) ELSE all

\* what the peer may send as its response, and what it does once these bytes are
\* out: close the connection, send nothing more, or go on sending filler bytes
PeerBytes ==
    {<<>>, <<"{", Filler>>, <<"{", Filler, "}">>, <<"{", Lead, Continuation, "}">>}

PeerThen == {"close", "silent", "drip"}

\* the peer settles what it sends for the request of worker t
PeerAnswers(t, bytes, then) ==
    /\ caller[t].pc = "sent"
    /\ caller[t].stream = ""
    /\ caller' = [caller EXCEPT ![t].pc = "reading"]
    /\ wire' = [doc |-> bytes, rest |-> bytes, then |-> then, buf |-> <<>>, reads |-> 0]
    /\ UNCHANGED <<now, running, cfgVars, discVars, recent, queue, rxVars, engVars,
                   apiVars, lock, sock, open_conns, opened, calls, last_call, late,
                   lockVars, snapshot, udp, late_batch>>

\* one pass of the while loop of _receive_full_response: a recv of the next n
\* bytes, the append and the parse attempt; the call ends where the loop ends
ReadChunk(t, n) ==
    /\ caller[t].pc = "reading"
    /\ n \in 1..Max(1, Len(wire.rest))
    /\ LET chunk == IF wire.rest # <<>> THEN SubSeq(wire.rest, 1, n)
                    ELSE IF wire.then = "drip" THEN <<Filler>> ELSE <<>>
           buf == append(wire.buf, chunk)
           p == try_parse(buf)
           c == command_result(p.response)
       IN IF sock = 0
          THEN /\ CallFails(t, "socket closed", NoReply, TRUE, sock, open_conns)
               /\ wire' = NoWire
          ELSE IF chunk = <<>> /\ wire.then = "silent"
          THEN /\ CallFails(t, "timeout", NoReply, TRUE, sock, open_conns)
               /\ wire' = NoWire
          ELSE IF chunk = <<>> /\ wire.buf = <<>>
          THEN /\ CallFails(t, "No data received from Ableton", NoReply, TRUE, sock,
                            open_conns)
               /\ wire' = NoWire
          ELSE IF chunk = <<>>
          THEN /\ CallFails(t, "unparsable", NoReply, TRUE, sock, open_conns)
               /\ wire' = NoWire
          ELSE IF p.kind = "raised"
          THEN /\ CallFails(t, "UnicodeDecodeError", NoReply, TRUE, sock, open_conns)
               /\ wire' = NoWire
          ELSE IF p.kind = "again"
          THEN /\ wire' = [wire EXCEPT !.rest = SubSeq(wire.rest, n + 1, Len(wire.rest)),
                                       !.buf = buf,
                                       !.reads = (wire.reads + 1) % ReadWindow]
               /\ UNCHANGED <<lock, sock, open_conns, caller, last_call>>
          ELSE IF c.raised
          THEN /\ CallFails(t, c.message, p.response, TRUE, sock, open_conns)
               /\ wire' = NoWire
          ELSE /\ lock' = 0
               /\ caller' = [caller EXCEPT ![t] = IdleCaller]
               /\ last_call' = [thread |-> t, http |-> 200, result |-> c.result,
                                detail |-> "", reply |-> p.response, sent |-> TRUE,
                                entered_with |-> caller[t].entered_with, used |-> sock,
                                left |-> sock]
               /\ wire' = NoWire
               /\ UNCHANGED <<sock, open_conns>>
    /\ UNCHANGED <<now, running, cfgVars, discVars, recent, queue, rxVars, engVars,
                   apiVars, opened, calls, late, lockVars, snapshot, udp, late_batch>>

InitWire == InitWith({Doc(DefaultSettings, <<>>)})

NextWire ==
    \/ Start
    \/ \E t \in Callers, has_type \in BOOLEAN : CallBegin(t, has_type)
    \/ \E t \in Callers, ok \in BOOLEAN : Enter(t, ok)
    \/ \E t \in Callers, ok \in BOOLEAN : Send(t, ok)
    \/ \E t \in Callers, bytes \in PeerBytes, then \in PeerThen : PeerAnswers(t, bytes, then)
    \/ \E t \in Callers, n \in 1..MaxBuf : ReadChunk(t, n)

SpecWire == InitWire /\ [][NextWire]_vars

\* every pass of the read loop that can be made is made: recv returns within its
\* 10 s timeout, and the thread of the call is scheduled
SpecWireFair ==
    /\ SpecWire
    /\ WF_vars(\E t \in Callers, n \in 1..MaxBuf : ReadChunk(t, n))

\* C32: every send_command call that is reading its response ends, with a
\* result or a failure, whatever the peer does, and the client lock is free then
C32_CallEnds ==
    \A t \in Callers : (caller[t].pc = "reading") ~> (caller[t].pc = "idle" /\ lock # t)

\* C33: a call whose peer sends one complete JSON response returns what it
\* returns when the response comes as one chunk, however the bytes are split
C33_SplitIndependent ==
    [][\A t \in Callers :
          (/\ caller[t].pc = "reading"
           /\ caller'[t].pc = "idle"
           /\ sock # 0
           /\ is_document(wire.doc)
           /\ decodes(wire.doc))
          => (/\ last_call'.http = 200
              /\ last_call'.reply = loads(wire.doc))]_vars


---------------------------------------------------------------------------
(* udp_receiver.py: start(), the steps of the thread of _run, and the steps of
   stop(), which another thread runs *)

\* start(): the flag is set and the thread begins
ReceiverStart ==
    /\ udp.pc = "unstarted"
    /\ udp.stop = "idle"
    /\ udp' = [udp EXCEPT !.running = TRUE, !.pc = "created"]
    /\ UNCHANGED <<now, running, cfgVars, discVars, recent, queue, rxVars, engVars,
                   apiVars, tcpVars, lockVars, wire, snapshot, late_batch>>

\* _run, lines 37-38: the thread makes its socket and binds it
RunBind ==
    /\ udp.pc = "created"
    /\ udp' = [udp EXCEPT !.sock = "open", !.pc = "check"]
    /\ UNCHANGED <<now, running, cfgVars, discVars, recent, queue, rxVars, engVars,
                   apiVars, tcpVars, lockVars, wire, snapshot, late_batch>>

\* _run, line 40: while self._running
RunCheck ==
    /\ udp.pc = "check"
    /\ udp' = [udp EXCEPT !.pc = IF udp.running THEN "call" ELSE "exited"]
    /\ UNCHANGED <<now, running, cfgVars, discVars, recent, queue, rxVars, engVars,
                   apiVars, tcpVars, lockVars, wire, snapshot, late_batch>>

\* _run, line 42: self._sock.recvfrom is called; with self._sock set to None
\* the AttributeError is caught and the loop goes on
RunCall ==
    /\ udp.pc = "call"
    /\ udp' = [udp EXCEPT !.pc = IF udp.sock = "none" THEN "check" ELSE "blocked"]
    /\ UNCHANGED <<now, running, cfgVars, discVars, recent, queue, rxVars, engVars,
                   apiVars, tcpVars, lockVars, wire, snapshot, late_batch>>

\* _run, lines 42-47: recvfrom returns datagram d, which is parsed and queued.
\* A socket that another thread closes during the call still delivers
RunReceive(d) ==
    /\ udp.pc = "blocked"
    /\ d.kind = "dict" => received < MaxBatches
    /\ queue' = receive(queue, d).queue
    /\ received' = IF d.kind = "dict" THEN received + 1 ELSE received
    /\ rx_seen_bad' = (rx_seen_bad \/ d.kind # "dict")
    /\ udp' = [udp EXCEPT !.pc = "check"]
    /\ UNCHANGED <<now, running, cfgVars, discVars, recent, rx, engVars,
                   apiVars, tcpVars, lockVars, wire, snapshot, late_batch>>

\* the close of stop() ends the blocked recvfrom with an error, on the platforms
\* where a close does that; the error is caught and the loop goes on
RunWake ==
    /\ udp.pc = "blocked"
    /\ udp.stop \in {"closed", "returned"}
    /\ udp' = [udp EXCEPT !.pc = "check"]
    /\ UNCHANGED <<now, running, cfgVars, discVars, recent, queue, rxVars, engVars,
                   apiVars, tcpVars, lockVars, wire, snapshot, late_batch>>

\* stop(), line 25: the flag is cleared
StopFlag ==
    /\ udp.pc # "unstarted"
    /\ udp.stop = "idle"
    /\ udp' = [udp EXCEPT !.running = FALSE, !.stop = "flagged"]
    /\ UNCHANGED <<now, running, cfgVars, discVars, recent, queue, rxVars, engVars,
                   apiVars, tcpVars, lockVars, wire, snapshot, late_batch>>

\* stop(), lines 26-31: the socket, if there is one, is closed and forgotten
StopClose ==
    /\ udp.stop = "flagged"
    /\ udp' = [udp EXCEPT !.sock = "none", !.stop = "closed"]
    /\ UNCHANGED <<now, running, cfgVars, discVars, recent, queue, rxVars, engVars,
                   apiVars, tcpVars, lockVars, wire, snapshot, late_batch>>

\* stop(), lines 32-34: join(timeout=1.0) returns, the thread ended or not
StopJoin ==
    /\ udp.stop = "closed"
    /\ udp' = [udp EXCEPT !.stop = "returned"]
    /\ UNCHANGED <<now, running, cfgVars, discVars, recent, queue, rxVars, engVars,
                   apiVars, tcpVars, lockVars, wire, snapshot, late_batch>>

InitReceiver == InitWith({Doc(DefaultSettings, <<>>)})

NextReceiver ==
    \/ ReceiverStart
    \/ RunBind
    \/ RunCheck
    \/ RunCall
    \/ \E d \in Datagrams : RunReceive(d)
    \/ RunWake
    \/ StopFlag
    \/ StopClose
    \/ StopJoin

SpecReceiver == InitReceiver /\ [][NextReceiver]_vars

\* C34: once stop() has returned, the receive thread puts no batch on the queue
C34_NoPushAfterStop ==
    [][udp.stop = "returned" => queue' = queue]_vars


---------------------------------------------------------------------------
(* router.py: the main loop step by step, with stop() between its steps *)

\* _main_loop, line 98: while self._running
EngineCheck ==
    /\ engine = "idle"
    /\ engine' = IF running THEN "polling" ELSE "exited"
    /\ UNCHANGED <<tcpVars, apiVars, now, running, cfgVars, discVars, recent, queue, rxVars,
                   cur, popped, last_values, current_stream_values, stream_values_file,
                   last_stream_values_write, last_entry>>
    /\ UNCHANGED syncVars

\* _main_loop, line 100: queue.get returns a queued payload, whatever the flag
\* has become since the test of line 98
EngineGet ==
    /\ engine = "polling"
    /\ queue # <<>>
    /\ Dequeue
    /\ late_batch' = ~running
    /\ UNCHANGED <<lockVars, wire, snapshot, udp>>

\* _main_loop, lines 101-106: queue.get times out on the empty queue
EngineWait ==
    /\ engine = "polling"
    /\ queue = <<>>
    /\ engine' = "idle"
    /\ LET flush == now - last_stream_values_write > FlushInterval
       IN /\ last_stream_values_write' = IF flush THEN now ELSE last_stream_values_write
          /\ stream_values_file' = IF flush THEN write_stream_values(current_stream_values)
                                   ELSE stream_values_file
    /\ UNCHANGED <<tcpVars, apiVars, now, running, cfgVars, discVars, recent, queue, rxVars,
                   cur, popped, last_values, current_stream_values, last_entry>>
    /\ UNCHANGED syncVars

ShutdownMappingLists ==
    {<<Mapping("a", T012, 20, 80, JNum(0), TRUE)>>,
     <<Mapping("a", T012, 0, 1, JNum(Tenths(5)), TRUE),
       Mapping("b", T001, 20, 80, JNum(0), TRUE)>>}

ShutdownDocs == {Doc(DefaultSettings, ml) : ml \in ShutdownMappingLists}

InitShutdown == InitWith(ShutdownDocs)

NextShutdown ==
    \/ Start
    \/ \E d \in SkipDatagrams : Receive(d)
    \/ EngineCheck
    \/ EngineGet
    \/ EngineWait
    \/ EngineEntry
    \/ Tick
    \/ Stop

SpecShutdown == InitShutdown /\ [][NextShutdown]_vars

\* C35: no entry of a batch that left the queue after stop() cleared the
\* running flag is dispatched
C35_NoDispatchAfterStop ==
    [][(late_batch /\ engine = "batch" /\ cur' # cur) => last_entry'.sent = <<>>]_vars


---------------------------------------------------------------------------
(* Updates through the router API that name target indices at the top level *)

InPlacePayloads ==
    {[track_index |-> JNull],
     [track_index |-> JNum(1), smoothing |-> JStr],
     [device_index |-> JNum(0)],
     [enabled |-> FALSE]}

InPlaceDocs ==
    {Doc(DefaultSettings, <<MappingA>>),
     Doc(DefaultSettings, <<MappingA, Mapping("b", T001, 0, 1, JNum(Tenths(5)), TRUE)>>)}

InitInPlace == InitWith(InPlaceDocs)

NextInPlace ==
    \/ Start
    \/ WatcherReload
    \/ \E s \in Streams, p \in InPlacePayloads : RouterUpdateBegin(s, p)
    \/ RouterUpdateEnd
    \/ \E s \in Streams : RouterDelete(s)

SpecInPlace == InitInPlace /\ [][NextInPlace]_vars

\* C36: an update through PUT /api/mappings/{motion_stream} that fails leaves
\* every stored mapping, its nested target included, as it was
C36_FailedUpdateKeepsMapping ==
    [][(rtr.pc = "listed" /\ rtr'.pc = "idle" /\ resp'.status = 400)
         => config'.mappings = config.mappings]_vars


---------------------------------------------------------------------------
(* Partial updates *)

TargetAndRangeKeys ==
    {"target", "track_index", "device_index", "parameter_index",
     "range", "range_min", "range_max"}

StoredFor(mappings, motion_stream) == mappings[IndexOfStream(mappings, motion_stream)]

KeepsTargetAndRange(before, after) ==
    /\ after.target = before.target
    /\ after.range = before.range

\* C37: an update whose payload names neither the target nor the range leaves
\* the target and the range of the mapping as they were read, in the file
\* based API and in the router API
C37_PartialUpdateKeepsRest ==
    [][/\ \A t \in WebThreads :
            (/\ web[t].pc = "read"
             /\ web[t].op = "update"
             /\ web'[t].pc = "writing"
             /\ DOMAIN web[t].payload \cap TargetAndRangeKeys = {})
            => KeepsTargetAndRange(StoredFor(mappings_of(web[t].read), web[t].stream),
                                   StoredFor(mappings_of(web'[t].doc), web[t].stream))
       /\ (/\ rtr.pc = "listed"
           /\ rtr'.pc = "idle"
           /\ resp'.status = 200
           /\ DOMAIN rtr.payload \cap (TargetAndRangeKeys \ {"target", "range"}) = {})
          => KeepsTargetAndRange(StoredFor(rtr.read.mappings, rtr.stream),
                                 StoredFor(config'.mappings, rtr.stream))]_vars


---------------------------------------------------------------------------
(* Concurrent mutations through the file based API *)

\* the mappings of document d for other streams than motion_stream
OfOtherStreams(d, motion_stream) ==
    {m \in Range(mappings_of(d)) : m.motion_stream # motion_stream}

InitWeb == InitWith(ApiDocs)

NextWeb ==
    \/ \E t \in WebThreads, op \in {"update", "delete"}, s \in Streams, p \in UpdatePayloads :
         WebBegin(t, op, s, p)
    \/ \E t \in WebThreads, s \in Streams : WebBegin(t, "create", s, [target |-> T012])
    \/ \E t \in WebThreads : WebDecide(t)
    \/ \E t \in WebThreads : WebDump(t)

\* the web UI server alone: its workers and the file
SpecWeb == InitWeb /\ [][NextWeb]_vars

\* C38: the document a file based mutation is about to write keeps the settings
\* it read and holds every mapping that the file holds for another stream at that
\* moment: no mutation another worker has completed is overwritten
C38_NoLostUpdate ==
    [][\A t \in WebThreads :
          (web[t].pc = "read" /\ web'[t].pc = "writing" /\ file.kind = "json")
          => /\ web'[t].doc.settings = file.settings
             /\ OfOtherStreams(file, web[t].stream)
                  \subseteq OfOtherStreams(web'[t].doc, web[t].stream)]_vars


---------------------------------------------------------------------------
(* Responses that come after the read timeout *)

\* C39: the client never keeps a connection on which the peer still owes the
\* response of a call that timed out, and every call that succeeds has read its
\* result from the client's connection, on which no such response is owed
C39_NoLateResponse ==
    /\ [](sock \notin late)
    /\ [][(last_call' # last_call /\ last_call'.http = 200)
            => (last_call'.used = sock /\ last_call'.used \notin late)]_vars

\* a call timed out, the peer owes its response on that connection, and a later
\* call has succeeded on a connection opened after it
C39_Witness ==
    /\ late # {}
    /\ last_call.http = 200
    /\ last_call.used \notin late
    /\ \A c \in late : c < last_call.used


---------------------------------------------------------------------------
(* The live values as readers see them *)

IsNumeric(e) == e.value.type \in {"number", "bigint"}

\* the cache with all numeric values of the batch stored; a batch with a value
\* that no float holds cannot be stored as a whole
StoredWhole(values, batch) ==
    IF \E i \in DOMAIN batch : batch[i].value.type = "bigint" THEN values
    ELSE [k \in (DOMAIN values) \cup {batch[i].stream : i \in {j \in DOMAIN batch : IsNumeric(batch[j])}} |->
            IF \E i \in DOMAIN batch : IsNumeric(batch[i]) /\ batch[i].stream = k
            THEN batch[CHOOSE i \in DOMAIN batch :
                           IsNumeric(batch[i]) /\ batch[i].stream = k].value.value
            ELSE values[k]]

\* the caches that n batches leave when each is stored as a whole or not at all
RECURSIVE WholeBatchCaches(_)
WholeBatchCaches(n) ==
    IF n = 0 THEN {EmptyMap}
    ELSE LET before == WholeBatchCaches(n - 1)
         IN before \cup {StoredWhole(c, d.batch) : c \in before, d \in LockDatagrams}

\* C40: what GET /api/stream-values answers holds, of every batch, all numeric
\* values or none, and the step that stores a batch stores all of them and leaves
\* the other entries as they were
C40_BatchAtomic ==
    /\ [](snapshot.taken => snapshot.values \in WholeBatchCaches(MaxBatches))
    /\ [][(engine = "updating" /\ engine' # "updating")
            => current_stream_values' = StoredWhole(current_stream_values, cur)]_vars

====
